---- MODULE Spec2Model ----
(***************************************************************************)
(* The contract-interaction helper of testing_scripts: the query and       *)
(* execute methods of dexter_helpers_mixin (mixin_dexter_helper.py) and    *)
(* the free functions of simulation_script.py, run against a chain client  *)
(* and a wallet whose answers are chosen nondeterministically.             *)
(***************************************************************************)
EXTENDS Integers, Sequences, FiniteSets, TLC

VARIABLES impl, last, twin, repeatOf, nCalls, nBuilt, nRequests

vars == <<impl, last, twin, repeatOf, nCalls, nBuilt, nRequests>>

\* Number of helper invocations explored in one behaviour.
MaxCalls == 2

(***************************************************************************)
(* Python values.  A str is its sequence of character codes, an int a      *)
(* one-element sequence, a list its items, a dict its <<key, value>> pairs *)
(* in insertion order.                                                     *)
(***************************************************************************)
\* The string literals of the helper files and of the argument domains, as
\* character codes (what bytes(s, "ascii") yields).
Ascii ==
    "null" :> <<110, 117, 108, 108>> @@
    "config" :> <<99, 111, 110, 102, 105, 103>> @@
    "query_rigistery" :> <<113, 117, 101, 114, 121, 95, 114, 105, 103, 105, 115, 116, 101, 114, 121>> @@
    "get_pool_by_id" :> <<103, 101, 116, 95, 112, 111, 111, 108, 95, 98, 121, 95, 105, 100>> @@
    "get_pool_by_address" :> <<103, 101, 116, 95, 112, 111, 111, 108, 95, 98, 121, 95, 97, 100, 100, 114, 101, 115, 115>> @@
    "fee_params" :> <<102, 101, 101, 95, 112, 97, 114, 97, 109, 115>> @@
    "pool_id" :> <<112, 111, 111, 108, 95, 105, 100>> @@
    "on_join_pool" :> <<111, 110, 95, 106, 111, 105, 110, 95, 112, 111, 111, 108>> @@
    "on_exit_pool" :> <<111, 110, 95, 101, 120, 105, 116, 95, 112, 111, 111, 108>> @@
    "on_swap" :> <<111, 110, 95, 115, 119, 97, 112>> @@
    "cumulative_price" :> <<99, 117, 109, 117, 108, 97, 116, 105, 118, 101, 95, 112, 114, 105, 99, 101>> @@
    "cumulative_prices" :> <<99, 117, 109, 117, 108, 97, 116, 105, 118, 101, 95, 112, 114, 105, 99, 101, 115>> @@
    "update_config" :> <<117, 112, 100, 97, 116, 101, 95, 99, 111, 110, 102, 105, 103>> @@
    "update_pool_config" :> <<117, 112, 100, 97, 116, 101, 95, 112, 111, 111, 108, 95, 99, 111, 110, 102, 105, 103>> @@
    "add_to_registery" :> <<97, 100, 100, 95, 116, 111, 95, 114, 101, 103, 105, 115, 116, 101, 114, 121>> @@
    "create_pool_instance" :> <<99, 114, 101, 97, 116, 101, 95, 112, 111, 111, 108, 95, 105, 110, 115, 116, 97, 110, 99, 101>> @@
    "join_pool" :> <<106, 111, 105, 110, 95, 112, 111, 111, 108>> @@
    "swap" :> <<115, 119, 97, 112>> @@
    "propose_new_owner" :> <<112, 114, 111, 112, 111, 115, 101, 95, 110, 101, 119, 95, 111, 119, 110, 101, 114>> @@
    "drop_ownership_proposal" :> <<100, 114, 111, 112, 95, 111, 119, 110, 101, 114, 115, 104, 105, 112, 95, 112, 114, 111, 112, 111, 115, 97, 108>> @@
    "claim_ownership" :> <<99, 108, 97, 105, 109, 95, 111, 119, 110, 101, 114, 115, 104, 105, 112>> @@
    "exit_pool" :> <<101, 120, 105, 116, 95, 112, 111, 111, 108>> @@
    "send" :> <<115, 101, 110, 100>> @@
    "query_registry" :> <<113, 117, 101, 114, 121, 95, 114, 101, 103, 105, 115, 116, 114, 121>> @@
    "add_to_registry" :> <<97, 100, 100, 95, 116, 111, 95, 114, 101, 103, 105, 115, 116, 114, 121>> @@
    "pool_type" :> <<112, 111, 111, 108, 95, 116, 121, 112, 101>> @@
    "pool_addr" :> <<112, 111, 111, 108, 95, 97, 100, 100, 114>> @@
    "assets_in" :> <<97, 115, 115, 101, 116, 115, 95, 105, 110>> @@
    "mint_amount" :> <<109, 105, 110, 116, 95, 97, 109, 111, 117, 110, 116>> @@
    "slippage_tolerance" :> <<115, 108, 105, 112, 112, 97, 103, 101, 95, 116, 111, 108, 101, 114, 97, 110, 99, 101>> @@
    "assets_out" :> <<97, 115, 115, 101, 116, 115, 95, 111, 117, 116>> @@
    "burn_amount" :> <<98, 117, 114, 110, 95, 97, 109, 111, 117, 110, 116>> @@
    "swap_type" :> <<115, 119, 97, 112, 95, 116, 121, 112, 101>> @@
    "offer_asset" :> <<111, 102, 102, 101, 114, 95, 97, 115, 115, 101, 116>> @@
    "ask_asset" :> <<97, 115, 107, 95, 97, 115, 115, 101, 116>> @@
    "amount" :> <<97, 109, 111, 117, 110, 116>> @@
    "max_spread" :> <<109, 97, 120, 95, 115, 112, 114, 101, 97, 100>> @@
    "belief_price" :> <<98, 101, 108, 105, 101, 102, 95, 112, 114, 105, 99, 101>> @@
    "lp_token_code_id" :> <<108, 112, 95, 116, 111, 107, 101, 110, 95, 99, 111, 100, 101, 95, 105, 100>> @@
    "fee_collector" :> <<102, 101, 101, 95, 99, 111, 108, 108, 101, 99, 116, 111, 114>> @@
    "generator_address" :> <<103, 101, 110, 101, 114, 97, 116, 111, 114, 95, 97, 100, 100, 114, 101, 115, 115>> @@
    "is_disabled" :> <<105, 115, 95, 100, 105, 115, 97, 98, 108, 101, 100>> @@
    "new_fee_info" :> <<110, 101, 119, 95, 102, 101, 101, 95, 105, 110, 102, 111>> @@
    "new_pool_config" :> <<110, 101, 119, 95, 112, 111, 111, 108, 95, 99, 111, 110, 102, 105, 103>> @@
    "asset_infos" :> <<97, 115, 115, 101, 116, 95, 105, 110, 102, 111, 115>> @@
    "lp_token_name" :> <<108, 112, 95, 116, 111, 107, 101, 110, 95, 110, 97, 109, 101>> @@
    "lp_token_symbol" :> <<108, 112, 95, 116, 111, 107, 101, 110, 95, 115, 121, 109, 98, 111, 108>> @@
    "init_params" :> <<105, 110, 105, 116, 95, 112, 97, 114, 97, 109, 115>> @@
    "recipient" :> <<114, 101, 99, 105, 112, 105, 101, 110, 116>> @@
    "assets" :> <<97, 115, 115, 101, 116, 115>> @@
    "lp_to_mint" :> <<108, 112, 95, 116, 111, 95, 109, 105, 110, 116>> @@
    "swap_request" :> <<115, 119, 97, 112, 95, 114, 101, 113, 117, 101, 115, 116>> @@
    "owner" :> <<111, 119, 110, 101, 114>> @@
    "expires_in" :> <<101, 120, 112, 105, 114, 101, 115, 95, 105, 110>> @@
    "contract_addr" :> <<99, 111, 110, 116, 114, 97, 99, 116, 95, 97, 100, 100, 114>> @@
    "msg" :> <<109, 115, 103>> @@
    "uxprt" :> <<117, 120, 112, 114, 116>> @@
    "xyk" :> <<120, 121, 107>> @@
    "vault1" :> <<118, 97, 117, 108, 116, 49>> @@
    "lptok1" :> <<108, 112, 116, 111, 107, 49>> @@
    "pool1" :> <<112, 111, 111, 108, 49>> @@
    "wallet1" :> <<119, 97, 108, 108, 101, 116, 49>> @@
    "user1" :> <<117, 115, 101, 114, 49>> @@
    "tokenA" :> <<116, 111, 107, 101, 110, 65>> @@
    "native_token" :> <<110, 97, 116, 105, 118, 101, 95, 116, 111, 107, 101, 110>> @@
    "denom" :> <<100, 101, 110, 111, 109>> @@
    "info" :> <<105, 110, 102, 111>> @@
    "give_in" :> <<103, 105, 118, 101, 95, 105, 110>> @@
    "LP" :> <<76, 80>> @@
    "r1" :> <<114, 49>> @@
    "r2" :> <<114, 50>> @@
    "txhash1" :> <<116, 120, 104, 97, 115, 104, 49>> @@
    "10" :> <<49, 48>> @@
    "5" :> <<53>> @@
    "1" :> <<49>> @@
    "test_tokens_addresses" :> <<116, 101, 115, 116, 95, 116, 111, 107, 101, 110, 115, 95, 97, 100, 100, 114, 101, 115, 115, 101, 115>> @@
    "persistence1u2zdjcczjrenwmf57fmrpensk4the84azdm05m3unm387rm8asdsh0yf27" :> <<112, 101, 114, 115, 105, 115, 116, 101, 110, 99, 101, 49, 117, 50, 122, 100, 106, 99, 99, 122, 106, 114, 101, 110, 119, 109, 102, 53, 55, 102, 109, 114, 112, 101, 110, 115, 107, 52, 116, 104, 101, 56, 52, 97, 122, 100, 109, 48, 53, 109, 51, 117, 110, 109, 51, 56, 55, 114, 109, 56, 97, 115, 100, 115, 104, 48, 121, 102, 50, 55>> @@
    "persistence1rtdulljz3dntzpu085c7mzre9dg4trgdddu4tqk7uuuvu6xrfu8s8wcs45" :> <<112, 101, 114, 115, 105, 115, 116, 101, 110, 99, 101, 49, 114, 116, 100, 117, 108, 108, 106, 122, 51, 100, 110, 116, 122, 112, 117, 48, 56, 53, 99, 55, 109, 122, 114, 101, 57, 100, 103, 52, 116, 114, 103, 100, 100, 100, 117, 52, 116, 113, 107, 55, 117, 117, 117, 118, 117, 54, 120, 114, 102, 117, 56, 115, 56, 119, 99, 115, 52, 53>> @@
    "persistence13hwj6afyxgue26f966hd5jkcvvjeruv7f9cdtd5d9mrtyrnn73ysyxvc8c" :> <<112, 101, 114, 115, 105, 115, 116, 101, 110, 99, 101, 49, 51, 104, 119, 106, 54, 97, 102, 121, 120, 103, 117, 101, 50, 54, 102, 57, 54, 54, 104, 100, 53, 106, 107, 99, 118, 118, 106, 101, 114, 117, 118, 55, 102, 57, 99, 100, 116, 100, 53, 100, 57, 109, 114, 116, 121, 114, 110, 110, 55, 51, 121, 115, 121, 120, 118, 99, 56, 99>> @@
    "persistence1gd54cnu80s8qdqcyhyvn06m87vlmch2uf4wvz4z08svawvc2rhysgvav55" :> <<112, 101, 114, 115, 105, 115, 116, 101, 110, 99, 101, 49, 103, 100, 53, 52, 99, 110, 117, 56, 48, 115, 56, 113, 100, 113, 99, 121, 104, 121, 118, 110, 48, 54, 109, 56, 55, 118, 108, 109, 99, 104, 50, 117, 102, 52, 119, 118, 122, 52, 122, 48, 56, 115, 118, 97, 119, 118, 99, 50, 114, 104, 121, 115, 103, 118, 97, 118, 53, 53>> @@
    "xyk_pool_addr" :> <<120, 121, 107, 95, 112, 111, 111, 108, 95, 97, 100, 100, 114>> @@
    "persistence1ut5qjunqrj6pnmg9vjlm8eufulquzdgqfw4xtg02kez0fdmzn9sqv804rp" :> <<112, 101, 114, 115, 105, 115, 116, 101, 110, 99, 101, 49, 117, 116, 53, 113, 106, 117, 110, 113, 114, 106, 54, 112, 110, 109, 103, 57, 118, 106, 108, 109, 56, 101, 117, 102, 117, 108, 113, 117, 122, 100, 103, 113, 102, 119, 52, 120, 116, 103, 48, 50, 107, 101, 122, 48, 102, 100, 109, 122, 110, 57, 115, 113, 118, 56, 48, 52, 114, 112>> @@
    "xyk_lp_token_addr" :> <<120, 121, 107, 95, 108, 112, 95, 116, 111, 107, 101, 110, 95, 97, 100, 100, 114>> @@
    "persistence1xk0s8xgktn9x5vwcgtjdxqzadg88fgn33p8u9cnpdxwemvxscvasejtgv7" :> <<112, 101, 114, 115, 105, 115, 116, 101, 110, 99, 101, 49, 120, 107, 48, 115, 56, 120, 103, 107, 116, 110, 57, 120, 53, 118, 119, 99, 103, 116, 106, 100, 120, 113, 122, 97, 100, 103, 56, 56, 102, 103, 110, 51, 51, 112, 56, 117, 57, 99, 110, 112, 100, 120, 119, 101, 109, 118, 120, 115, 99, 118, 97, 115, 101, 106, 116, 103, 118, 55>> @@
    "xyk_2_pool_addr" :> <<120, 121, 107, 95, 50, 95, 112, 111, 111, 108, 95, 97, 100, 100, 114>> @@
    "persistence1xvcthy3yrjaeg4y29c5zd2ckefgx99h2ge5ppxtwslnvyqwar7aq2lzgpz" :> <<112, 101, 114, 115, 105, 115, 116, 101, 110, 99, 101, 49, 120, 118, 99, 116, 104, 121, 51, 121, 114, 106, 97, 101, 103, 52, 121, 50, 57, 99, 53, 122, 100, 50, 99, 107, 101, 102, 103, 120, 57, 57, 104, 50, 103, 101, 53, 112, 112, 120, 116, 119, 115, 108, 110, 118, 121, 113, 119, 97, 114, 55, 97, 113, 50, 108, 122, 103, 112, 122>> @@
    "xyk_2_lp_token_addr" :> <<120, 121, 107, 95, 50, 95, 108, 112, 95, 116, 111, 107, 101, 110, 95, 97, 100, 100, 114>> @@
    "persistence15ul08t80lm6kp6fs424e3c9gg6eys7wcvkyl6lud45ulfl0fxrnsjdek2u" :> <<112, 101, 114, 115, 105, 115, 116, 101, 110, 99, 101, 49, 53, 117, 108, 48, 56, 116, 56, 48, 108, 109, 54, 107, 112, 54, 102, 115, 52, 50, 52, 101, 51, 99, 57, 103, 103, 54, 101, 121, 115, 55, 119, 99, 118, 107, 121, 108, 54, 108, 117, 100, 52, 53, 117, 108, 102, 108, 48, 102, 120, 114, 110, 115, 106, 100, 101, 107, 50, 117>> @@
    "stableswap_pool_addr" :> <<115, 116, 97, 98, 108, 101, 115, 119, 97, 112, 95, 112, 111, 111, 108, 95, 97, 100, 100, 114>> @@
    "persistence1k528kg8h3q56j5yazshv39fafmhjzl4540u7w36g6q2amgyrpwpsvexl2d" :> <<112, 101, 114, 115, 105, 115, 116, 101, 110, 99, 101, 49, 107, 53, 50, 56, 107, 103, 56, 104, 51, 113, 53, 54, 106, 53, 121, 97, 122, 115, 104, 118, 51, 57, 102, 97, 102, 109, 104, 106, 122, 108, 52, 53, 52, 48, 117, 55, 119, 51, 54, 103, 54, 113, 50, 97, 109, 103, 121, 114, 112, 119, 112, 115, 118, 101, 120, 108, 50, 100>> @@
    "stableswap_lp_token_addr" :> <<115, 116, 97, 98, 108, 101, 115, 119, 97, 112, 95, 108, 112, 95, 116, 111, 107, 101, 110, 95, 97, 100, 100, 114>> @@
    "persistence1jdsm42szlkrsnht95w4xesk5yluud2rge9vr4vuv84sxd9w32uwsvv0lvh" :> <<112, 101, 114, 115, 105, 115, 116, 101, 110, 99, 101, 49, 106, 100, 115, 109, 52, 50, 115, 122, 108, 107, 114, 115, 110, 104, 116, 57, 53, 119, 52, 120, 101, 115, 107, 53, 121, 108, 117, 117, 100, 50, 114, 103, 101, 57, 118, 114, 52, 118, 117, 118, 56, 52, 115, 120, 100, 57, 119, 51, 50, 117, 119, 115, 118, 118, 48, 108, 118, 104>> @@
    "stableswap_2_pool_addr" :> <<115, 116, 97, 98, 108, 101, 115, 119, 97, 112, 95, 50, 95, 112, 111, 111, 108, 95, 97, 100, 100, 114>> @@
    "persistence1acrmqqyqq9gwcy2upegzncahqwnzjzy89pssyt0s3ghwsrrqy94srfsw6r" :> <<112, 101, 114, 115, 105, 115, 116, 101, 110, 99, 101, 49, 97, 99, 114, 109, 113, 113, 121, 113, 113, 57, 103, 119, 99, 121, 50, 117, 112, 101, 103, 122, 110, 99, 97, 104, 113, 119, 110, 122, 106, 122, 121, 56, 57, 112, 115, 115, 121, 116, 48, 115, 51, 103, 104, 119, 115, 114, 114, 113, 121, 57, 52, 115, 114, 102, 115, 119, 54, 114>> @@
    "stableswap_2_lp_token_addr" :> <<115, 116, 97, 98, 108, 101, 115, 119, 97, 112, 95, 50, 95, 108, 112, 95, 116, 111, 107, 101, 110, 95, 97, 100, 100, 114>> @@
    "persistence1kj45m8j2pqrqlw67tqde8lduzla7me38fps8tzzjl2emgp90f0gqjjf5sk" :> <<112, 101, 114, 115, 105, 115, 116, 101, 110, 99, 101, 49, 107, 106, 52, 53, 109, 56, 106, 50, 112, 113, 114, 113, 108, 119, 54, 55, 116, 113, 100, 101, 56, 108, 100, 117, 122, 108, 97, 55, 109, 101, 51, 56, 102, 112, 115, 56, 116, 122, 122, 106, 108, 50, 101, 109, 103, 112, 57, 48, 102, 48, 103, 113, 106, 106, 102, 53, 115, 107>> @@
    "stable5swap_pool_addr" :> <<115, 116, 97, 98, 108, 101, 53, 115, 119, 97, 112, 95, 112, 111, 111, 108, 95, 97, 100, 100, 114>> @@
    "persistence1a7pjjyvng22a8msatp4zj6ut9tmsd9qvp26gaj7tnrjrqtx7yafqm7ezny" :> <<112, 101, 114, 115, 105, 115, 116, 101, 110, 99, 101, 49, 97, 55, 112, 106, 106, 121, 118, 110, 103, 50, 50, 97, 56, 109, 115, 97, 116, 112, 52, 122, 106, 54, 117, 116, 57, 116, 109, 115, 100, 57, 113, 118, 112, 50, 54, 103, 97, 106, 55, 116, 110, 114, 106, 114, 113, 116, 120, 55, 121, 97, 102, 113, 109, 55, 101, 122, 110, 121>> @@
    "stable5swap_lp_token_addr" :> <<115, 116, 97, 98, 108, 101, 53, 115, 119, 97, 112, 95, 108, 112, 95, 116, 111, 107, 101, 110, 95, 97, 100, 100, 114>> @@
    "persistence17jllkv6clrkrwsuyxpya505rnhzwenkr4njw3um5eyqjuqm4twzqlt82eh" :> <<112, 101, 114, 115, 105, 115, 116, 101, 110, 99, 101, 49, 55, 106, 108, 108, 107, 118, 54, 99, 108, 114, 107, 114, 119, 115, 117, 121, 120, 112, 121, 97, 53, 48, 53, 114, 110, 104, 122, 119, 101, 110, 107, 114, 52, 110, 106, 119, 51, 117, 109, 53, 101, 121, 113, 106, 117, 113, 109, 52, 116, 119, 122, 113, 108, 116, 56, 50, 101, 104>> @@
    "stable5swap_2_pool_addr" :> <<115, 116, 97, 98, 108, 101, 53, 115, 119, 97, 112, 95, 50, 95, 112, 111, 111, 108, 95, 97, 100, 100, 114>> @@
    "persistence1aexzn458dzh0lnuqdtzjtacq6tacnluz9ky643xdvw67en2yh97sjq6txg" :> <<112, 101, 114, 115, 105, 115, 116, 101, 110, 99, 101, 49, 97, 101, 120, 122, 110, 52, 53, 56, 100, 122, 104, 48, 108, 110, 117, 113, 100, 116, 122, 106, 116, 97, 99, 113, 54, 116, 97, 99, 110, 108, 117, 122, 57, 107, 121, 54, 52, 51, 120, 100, 118, 119, 54, 55, 101, 110, 50, 121, 104, 57, 55, 115, 106, 113, 54, 116, 120, 103>> @@
    "stable5swap_2_lp_token_addr" :> <<115, 116, 97, 98, 108, 101, 53, 115, 119, 97, 112, 95, 50, 95, 108, 112, 95, 116, 111, 107, 101, 110, 95, 97, 100, 100, 114>> @@
    "persistence18yqlanxjqxx5lr8r43hsvjf0wyrlec3r8rpxgm2svrh52mzmlh4scappxa" :> <<112, 101, 114, 115, 105, 115, 116, 101, 110, 99, 101, 49, 56, 121, 113, 108, 97, 110, 120, 106, 113, 120, 120, 53, 108, 114, 56, 114, 52, 51, 104, 115, 118, 106, 102, 48, 119, 121, 114, 108, 101, 99, 51, 114, 56, 114, 112, 120, 103, 109, 50, 115, 118, 114, 104, 53, 50, 109, 122, 109, 108, 104, 52, 115, 99, 97, 112, 112, 120, 97>> @@
    "weighted_pool_addr" :> <<119, 101, 105, 103, 104, 116, 101, 100, 95, 112, 111, 111, 108, 95, 97, 100, 100, 114>> @@
    "persistence1j5h5zftg5su7ytz74f7rryl4f6x3p78lh907fw39eqhax75r94jsgj4n54" :> <<112, 101, 114, 115, 105, 115, 116, 101, 110, 99, 101, 49, 106, 53, 104, 53, 122, 102, 116, 103, 53, 115, 117, 55, 121, 116, 122, 55, 52, 102, 55, 114, 114, 121, 108, 52, 102, 54, 120, 51, 112, 55, 56, 108, 104, 57, 48, 55, 102, 119, 51, 57, 101, 113, 104, 97, 120, 55, 53, 114, 57, 52, 106, 115, 103, 106, 52, 110, 53, 52>> @@
    "weighted_lp_token_addr" :> <<119, 101, 105, 103, 104, 116, 101, 100, 95, 108, 112, 95, 116, 111, 107, 101, 110, 95, 97, 100, 100, 114>> @@
    "persistence1ejycngcuqyw2h8afhlzkq0cmjegpt96x583jh99anjzeut2rm4sqf0x4wk" :> <<112, 101, 114, 115, 105, 115, 116, 101, 110, 99, 101, 49, 101, 106, 121, 99, 110, 103, 99, 117, 113, 121, 119, 50, 104, 56, 97, 102, 104, 108, 122, 107, 113, 48, 99, 109, 106, 101, 103, 112, 116, 57, 54, 120, 53, 56, 51, 106, 104, 57, 57, 97, 110, 106, 122, 101, 117, 116, 50, 114, 109, 52, 115, 113, 102, 48, 120, 52, 119, 107>> @@
    "vault_contract_address" :> <<118, 97, 117, 108, 116, 95, 99, 111, 110, 116, 114, 97, 99, 116, 95, 97, 100, 100, 114, 101, 115, 115>> @@
    "persistence1jyhyqjxf3pc7vzwyqhwe53up5pj0e53zw3xu2589uqgkvqngswnqgrmstf" :> <<112, 101, 114, 115, 105, 115, 116, 101, 110, 99, 101, 49, 106, 121, 104, 121, 113, 106, 120, 102, 51, 112, 99, 55, 118, 122, 119, 121, 113, 104, 119, 101, 53, 51, 117, 112, 53, 112, 106, 48, 101, 53, 51, 122, 119, 51, 120, 117, 50, 53, 56, 57, 117, 113, 103, 107, 118, 113, 110, 103, 115, 119, 110, 113, 103, 114, 109, 115, 116, 102>> @@
    "id" :> <<105, 100>> @@
    "type" :> <<116, 121, 112, 101>> @@
    "lp_token_addr" :> <<108, 112, 95, 116, 111, 107, 101, 110, 95, 97, 100, 100, 114>> @@
    "token" :> <<116, 111, 107, 101, 110>> @@
    "pool2" :> <<112, 111, 111, 108, 50>> @@
    "pool3" :> <<112, 111, 111, 108, 51>> @@
    "stableswap" :> <<115, 116, 97, 98, 108, 101, 115, 119, 97, 112>> @@
    "pool4" :> <<112, 111, 111, 108, 52>> @@
    "persistence1vguuxez2h5ekltfj9gjd62fs5k4rl2zy5hfrncasykzw08rezpfst7tmng" :> <<112, 101, 114, 115, 105, 115, 116, 101, 110, 99, 101, 49, 118, 103, 117, 117, 120, 101, 122, 50, 104, 53, 101, 107, 108, 116, 102, 106, 57, 103, 106, 100, 54, 50, 102, 115, 53, 107, 52, 114, 108, 50, 122, 121, 53, 104, 102, 114, 110, 99, 97, 115, 121, 107, 122, 119, 48, 56, 114, 101, 122, 112, 102, 115, 116, 55, 116, 109, 110, 103>> @@
    "pool5" :> <<112, 111, 111, 108, 53>> @@
    "stable5swap" :> <<115, 116, 97, 98, 108, 101, 53, 115, 119, 97, 112>> @@
    "persistence1rl8su3hadqqq2v86lscpuklsh2mh84cxqvjdew4jt9yd07dzekyq85jyzr" :> <<112, 101, 114, 115, 105, 115, 116, 101, 110, 99, 101, 49, 114, 108, 56, 115, 117, 51, 104, 97, 100, 113, 113, 113, 50, 118, 56, 54, 108, 115, 99, 112, 117, 107, 108, 115, 104, 50, 109, 104, 56, 52, 99, 120, 113, 118, 106, 100, 101, 119, 52, 106, 116, 57, 121, 100, 48, 55, 100, 122, 101, 107, 121, 113, 56, 53, 106, 121, 122, 114>> @@
    "pool6" :> <<112, 111, 111, 108, 54>> @@
    "persistence1vhjnzk9ly03dugffvzfcwgry4dgc8x0sv0nqqtfxj3ajn7rn5ghqtpaner" :> <<112, 101, 114, 115, 105, 115, 116, 101, 110, 99, 101, 49, 118, 104, 106, 110, 122, 107, 57, 108, 121, 48, 51, 100, 117, 103, 102, 102, 118, 122, 102, 99, 119, 103, 114, 121, 52, 100, 103, 99, 56, 120, 48, 115, 118, 48, 110, 113, 113, 116, 102, 120, 106, 51, 97, 106, 110, 55, 114, 110, 53, 103, 104, 113, 116, 112, 97, 110, 101, 114>> @@
    "pool7" :> <<112, 111, 111, 108, 55>> @@
    "weighted" :> <<119, 101, 105, 103, 104, 116, 101, 100>> @@
    "pool8" :> <<112, 111, 111, 108, 56>> @@
    "pool0" :> <<112, 111, 111, 108, 48>>

None_ == [t |-> "none", v |-> <<>>]

StrOf(codes) == [t |-> "str", v |-> codes]

PyStr(s) == StrOf(Ascii[s])

PyInt(n) == [t |-> "int", v |-> <<n>>]

PyList(xs) == [t |-> "list", v |-> xs]

PyDict(items) == [t |-> "dict", v |-> items]

\* hash(x): lists and dicts are unhashable.
Hashable(x) == x.t \in {"none", "str", "int"}

\* d[k] = val: an equal key keeps its place and takes the new value.
DictSet(items, k, val) ==
    IF \E i \in 1..Len(items) : items[i][1] = k
    THEN [i \in 1..Len(items) |-> IF items[i][1] = k THEN <<items[i][1], val>> ELSE items[i]]
    ELSE Append(items, <<k, val>>)

Ok(val) == [ok |-> TRUE, val |-> val, err |-> ""]

Fail(e) == [ok |-> FALSE, val |-> None_, err |-> e]

RECURSIVE DictBuild(_, _)
DictBuild(pairs, acc) ==
    IF pairs = <<>> THEN Ok(PyDict(acc))
    ELSE IF ~Hashable(Head(pairs)[1]) THEN Fail("TypeError")
    ELSE DictBuild(Tail(pairs), DictSet(acc, Head(pairs)[1], Head(pairs)[2]))

\* The dict display {k1: v1, k2: v2, ...}: the key EXPRESSIONS are evaluated, left
\* to right; an unhashable key raises TypeError.
DictDisplay(pairs) == DictBuild(pairs, <<>>)

\* {"name": {k1: v1, ...}}: the message with one literal top-level key.
Message(name, pairs) ==
    LET inner == DictDisplay(pairs)
    IN  IF inner.ok THEN DictDisplay(<< <<PyStr(name), inner.val>> >>) ELSE inner

(***************************************************************************)
(* json.dumps and base64.b64encode, on character codes.                    *)
(***************************************************************************)
RECURSIVE Digits(_)
Digits(n) == IF n < 10 THEN <<48 + n>> ELSE Digits(n \div 10) \o <<48 + (n % 10)>>

\* str(n) of an int.
IntRepr(n) == IF n < 0 THEN <<45>> \o Digits(0 - n) ELSE Digits(n)

RECURSIVE EscapeChars(_)
EscapeChars(s) ==
    IF s = <<>> THEN <<>>
    ELSE (IF Head(s) \in {34, 92} THEN <<92, Head(s)>> ELSE <<Head(s)>>) \o EscapeChars(Tail(s))

\* A JSON string literal: quotes, with " and \ escaped.
Quote(s) == <<34>> \o EscapeChars(s) \o <<34>>

\* A dict key as json.dumps writes it: str as is, int as its digits, None as null.
KeyRepr(k) ==
    CASE k.t = "str" -> Quote(k.v)
      [] k.t = "int" -> Quote(IntRepr(k.v[1]))
      [] OTHER -> Quote(Ascii["null"])

RECURSIVE json_dumps(_), DumpItems(_), DumpMembers(_)
\* json.dumps(x) with the default separators ", " and ": ".
json_dumps(x) ==
    CASE x.t = "none" -> Ascii["null"]
      [] x.t = "str" -> Quote(x.v)
      [] x.t = "int" -> IntRepr(x.v[1])
      [] x.t = "list" -> <<91>> \o DumpItems(x.v) \o <<93>>
      [] OTHER -> <<123>> \o DumpMembers(x.v) \o <<125>>

DumpItems(xs) ==
    IF xs = <<>> THEN <<>>
    ELSE json_dumps(Head(xs)) \o (IF Len(xs) > 1 THEN <<44, 32>> \o DumpItems(Tail(xs)) ELSE <<>>)

DumpMembers(ps) ==
    IF ps = <<>> THEN <<>>
    ELSE KeyRepr(Head(ps)[1]) \o <<58, 32>> \o json_dumps(Head(ps)[2])
         \o (IF Len(ps) > 1 THEN <<44, 32>> \o DumpMembers(Tail(ps)) ELSE <<>>)

\* The base64 alphabet A-Z a-z 0-9 + /.
B64Char(i) ==
    IF i < 26 THEN 65 + i
    ELSE IF i < 52 THEN 97 + (i - 26)
    ELSE IF i < 62 THEN 48 + (i - 52)
    ELSE IF i = 62 THEN 43 ELSE 47

\* base64.b64encode(b): each three bytes give four characters; a last group
\* of one or two bytes is padded with =.
b64encode(b) ==
    [i \in 1..(4 * ((Len(b) + 2) \div 3)) |->
        LET g == 3 * ((i - 1) \div 4)
            k == (i - 1) % 4
            b2 == IF g + 2 <= Len(b) THEN b[g + 2] ELSE 0
            b3 == IF g + 3 <= Len(b) THEN b[g + 3] ELSE 0
            n == b[g + 1] * 65536 + b2 * 256 + b3
        IN  CASE k = 0 -> B64Char(n \div 262144)
              [] k = 1 -> B64Char((n \div 4096) % 64)
              [] k = 2 -> IF g + 2 <= Len(b) THEN B64Char((n \div 64) % 64) ELSE 61
              [] OTHER -> IF g + 3 <= Len(b) THEN B64Char(n % 64) ELSE 61]

(***************************************************************************)
(* The collaborators: the chain client and the wallet.                     *)
(***************************************************************************)
\* How a call ended: it returned a value or raised an exception.
Return(val) == [kind |-> "return", ret |-> val, err |-> ""]

Raise(e) == [kind |-> "raise", ret |-> None_, err |-> e]

\* One run of a helper function: the calls it made on its collaborators, in
\* order, whether it built its payload, and how it ended.
Run(calls, built, outcome) ==
    [calls |-> calls, built |-> built, kind |-> outcome.kind, ret |-> outcome.ret, err |-> outcome.err]

FeeGas == 5000000

FeeAmount == 6250000

\* Fee(5000000, Coins(uxprt=6250000))
Fee == [gas_limit |-> FeeGas, amount |-> <<[denom |-> "uxprt", amount |-> FeeAmount]>>]

\* MsgExecuteContract(sender, contract, execute_msg)
MsgExecuteContract(sender, contract, execute_msg) ==
    [sender |-> sender, contract |-> contract, execute_msg |-> execute_msg]

\* The transaction wallet.create_and_sign_tx(msgs=..., fee=...) returns.
SignedTx(wallet, msgs, fee) == [msgs |-> msgs, fee |-> fee, signer |-> wallet.key.acc_address]

\* The names bound at module level in mixin_dexter_helper.py: its imports and
\* the class.  dict_to_b64 is defined in the class body, so it is an
\* attribute of the class and no module-level name.
MixinGlobals ==
    {"imp", "LCDClient", "MnemonicKey", "MsgExecuteContract", "Fee", "Coins", "Coin",
     "base64", "json", "dexter_helpers_mixin"}

\* The names bound at module level in simulation_script.py that the execute
\* functions use.
ScriptGlobals ==
    {"LCDClient", "MnemonicKey", "MsgExecuteContract", "Fee", "Coins", "Coin",
     "base64", "json", "client", "wallet", "addresses", "dict_to_b64"}

(***************************************************************************)
(* The query functions.  env.query is what client.wasm.contract_query does *)
(* when it is called.                                                      *)
(***************************************************************************)
\* A faulty TryQuery without the except clause: the client's exception
\* leaves the function.
TryQueryPropagates(env, contract_addr, request) ==
    IF ~request.ok THEN Run(<<>>, FALSE, Raise(request.err))
    ELSE LET call == [fn |-> "contract_query", addr |-> contract_addr, req |-> request.val,
                      kind |-> env.query.kind, out |-> env.query.ret, err |-> env.query.err]
         IN  IF env.query.kind = "raise"
             THEN Run(<<call>>, TRUE, Raise(env.query.err))
             ELSE Run(<<call>>, TRUE, Return(env.query.ret))

\* A faulty TryQuery that remembers the previous answer: when the most recent
\* invocation sent the same request to the same address and got an answer,
\* that answer is returned and the client is not called.
TryQueryMemoized(env, contract_addr, request) ==
    IF ~request.ok THEN Run(<<>>, FALSE, Return(None_))
    ELSE LET call == [fn |-> "contract_query", addr |-> contract_addr, req |-> request.val,
                      kind |-> env.query.kind, out |-> env.query.ret, err |-> env.query.err]
             hit == /\ last.run.calls # <<>>
                    /\ last.run.calls[1].fn = "contract_query"
                    /\ last.run.calls[1].kind = "return"
                    /\ last.run.calls[1].addr = contract_addr
                    /\ last.run.calls[1].req = request.val
         IN  IF hit THEN Run(<<>>, TRUE, Return(last.run.ret))
             ELSE IF env.query.kind = "raise"
             THEN Run(<<call>>, TRUE, Return(None_))
             ELSE Run(<<call>>, TRUE, Return(env.query.ret))

\* A faulty TryQuery that builds the request before entering the try: an
\* exception of the dict display leaves the function.
TryQueryBuildsOutsideTry(env, contract_addr, request) ==
    IF ~request.ok THEN Run(<<>>, FALSE, Raise(request.err))
    ELSE LET call == [fn |-> "contract_query", addr |-> contract_addr, req |-> request.val,
                      kind |-> env.query.kind, out |-> env.query.ret, err |-> env.query.err]
         IN  IF env.query.kind = "raise"
             THEN Run(<<call>>, TRUE, Return(None_))
             ELSE Run(<<call>>, TRUE, Return(env.query.ret))

\* try: sim_response = client.wasm.contract_query(contract_addr, request)
\*      return sim_response
\* except: return None
\* The request is an argument of the call, so it is built inside the try.
TryQuery(env, contract_addr, request) ==
    IF ~request.ok THEN Run(<<>>, FALSE, Return(None_))
    ELSE LET call == [fn |-> "contract_query", addr |-> contract_addr, req |-> request.val,
                      kind |-> env.query.kind, out |-> env.query.ret, err |-> env.query.err]
         IN  IF env.query.kind = "raise"
             THEN Run(<<call>>, TRUE, Return(None_))
             ELSE Run(<<call>>, TRUE, Return(env.query.ret))

query_vault_config(env, contract_addr) ==
    TryQuery(env, contract_addr, Message("config", <<>>))

query_vault_query_registery(env, contract_addr, pool_type) ==
    TryQuery(env, contract_addr, Message("query_rigistery", << <<pool_type, pool_type>> >>))

query_vault_GetPoolById(env, contract_addr, pool_id) ==
    TryQuery(env, contract_addr, Message("get_pool_by_id", << <<pool_id, pool_id>> >>))

query_vault_GetPoolByAddress(env, contract_addr, pool_addr) ==
    TryQuery(env, contract_addr, Message("get_pool_by_address", << <<pool_addr, pool_addr>> >>))

query_pool_config(env, contract_addr) ==
    TryQuery(env, contract_addr, Message("config", <<>>))

query_pool_fee_params(env, contract_addr) ==
    TryQuery(env, contract_addr, Message("fee_params", <<>>))

query_pool_pool_id(env, contract_addr) ==
    TryQuery(env, contract_addr, Message("pool_id", <<>>))

query_pool_on_join_pool(env, contract_addr, assets_in, mint_amount, slippage_tolerance) ==
    TryQuery(env, contract_addr,
             Message("on_join_pool", << <<assets_in, assets_in>>,
                                        <<mint_amount, mint_amount>>,
                                        <<slippage_tolerance, slippage_tolerance>> >>))

query_pool_on_exit_pool(env, contract_addr, assets_out, burn_amount) ==
    TryQuery(env, contract_addr,
             Message("on_exit_pool", << <<assets_out, assets_out>>,
                                        <<burn_amount, burn_amount>> >>))

query_pool_on_swap(env, contract_addr, swap_type, offer_asset, ask_asset, amount, max_spread, belief_price) ==
    TryQuery(env, contract_addr,
             Message("on_swap", << <<swap_type, swap_type>>,
                                   <<offer_asset, offer_asset>>,
                                   <<ask_asset, ask_asset>>,
                                   <<amount, amount>>,
                                   <<max_spread, max_spread>>,
                                   <<belief_price, belief_price>> >>))

query_cumulative_price(env, contract_addr, offer_asset, ask_asset) ==
    TryQuery(env, contract_addr,
             Message("cumulative_price", << <<offer_asset, offer_asset>>,
                                            <<ask_asset, ask_asset>> >>))

query_cumulative_prices(env, contract_addr) ==
    TryQuery(env, contract_addr, Message("cumulative_prices", <<>>))

(***************************************************************************)
(* The execute functions.  env.sign is what wallet.create_and_sign_tx      *)
(* does, env.broadcast what client.tx.broadcast does.                      *)
(***************************************************************************)
\* A faulty SignAndBroadcast that wraps the broadcast in try/except and
\* returns None when it raises.
SignAndBroadcastSwallows(env, wallet, contract, msg) ==
    IF ~msg.ok THEN Run(<<>>, FALSE, Raise(msg.err))
    ELSE LET convertMsgPrep == MsgExecuteContract(wallet.key.acc_address, contract, msg.val)
             tx == SignedTx(wallet, <<convertMsgPrep>>, Fee)
             sign == [fn |-> "create_and_sign_tx", wallet |-> wallet, msgs |-> <<convertMsgPrep>>,
                      fee |-> Fee, kind |-> env.sign.kind, out |-> tx, err |-> env.sign.err]
             send == [fn |-> "broadcast", tx |-> tx, kind |-> env.broadcast.kind,
                      out |-> env.broadcast.ret, err |-> env.broadcast.err]
         IN  IF env.sign.kind = "raise" THEN Run(<<sign>>, TRUE, Raise(env.sign.err))
             ELSE Run(<<sign, send>>, TRUE, Return(None_))

\* A faulty SignAndBroadcast with the two numbers of the fee exchanged:
\* Fee(6250000, Coins(uxprt=5000000)).
SignAndBroadcastSwappedFee(env, wallet, contract, msg) ==
    IF ~msg.ok THEN Run(<<>>, FALSE, Raise(msg.err))
    ELSE LET convertMsgPrep == MsgExecuteContract(wallet.key.acc_address, contract, msg.val)
             fee == [gas_limit |-> FeeAmount, amount |-> <<[denom |-> "uxprt", amount |-> FeeGas]>>]
             tx == SignedTx(wallet, <<convertMsgPrep>>, fee)
             sign == [fn |-> "create_and_sign_tx", wallet |-> wallet, msgs |-> <<convertMsgPrep>>,
                      fee |-> fee, kind |-> env.sign.kind, out |-> tx, err |-> env.sign.err]
             send == [fn |-> "broadcast", tx |-> tx, kind |-> env.broadcast.kind,
                      out |-> env.broadcast.ret, err |-> env.broadcast.err]
         IN  IF env.sign.kind = "raise" THEN Run(<<sign>>, TRUE, Raise(env.sign.err))
             ELSE IF env.broadcast.kind = "raise"
                  THEN Run(<<sign, send>>, TRUE, Raise(env.broadcast.err))
                  ELSE Run(<<sign, send>>, TRUE, Return(None_))

\* A faulty SignAndBroadcast that broadcasts a second time when the first
\* broadcast raised.
SignAndBroadcastRetries(env, wallet, contract, msg) ==
    IF ~msg.ok THEN Run(<<>>, FALSE, Raise(msg.err))
    ELSE LET convertMsgPrep == MsgExecuteContract(wallet.key.acc_address, contract, msg.val)
             tx == SignedTx(wallet, <<convertMsgPrep>>, Fee)
             sign == [fn |-> "create_and_sign_tx", wallet |-> wallet, msgs |-> <<convertMsgPrep>>,
                      fee |-> Fee, kind |-> env.sign.kind, out |-> tx, err |-> env.sign.err]
             send == [fn |-> "broadcast", tx |-> tx, kind |-> env.broadcast.kind,
                      out |-> env.broadcast.ret, err |-> env.broadcast.err]
         IN  IF env.sign.kind = "raise" THEN Run(<<sign>>, TRUE, Raise(env.sign.err))
             ELSE IF env.broadcast.kind = "raise"
                  THEN Run(<<sign, send, send>>, TRUE, Raise(env.broadcast.err))
                  ELSE Run(<<sign, send>>, TRUE, Return(None_))

\* A faulty SignAndBroadcast that broadcasts in a finally clause: the
\* broadcast is made even when the signing raised.
SignAndBroadcastFinally(env, wallet, contract, msg) ==
    IF ~msg.ok THEN Run(<<>>, FALSE, Raise(msg.err))
    ELSE LET convertMsgPrep == MsgExecuteContract(wallet.key.acc_address, contract, msg.val)
             tx == SignedTx(wallet, <<convertMsgPrep>>, Fee)
             sign == [fn |-> "create_and_sign_tx", wallet |-> wallet, msgs |-> <<convertMsgPrep>>,
                      fee |-> Fee, kind |-> env.sign.kind, out |-> tx, err |-> env.sign.err]
             send == [fn |-> "broadcast", tx |-> tx, kind |-> env.broadcast.kind,
                      out |-> env.broadcast.ret, err |-> env.broadcast.err]
         IN  IF env.sign.kind = "raise" THEN Run(<<sign, send>>, TRUE, Raise(env.sign.err))
             ELSE IF env.broadcast.kind = "raise"
                  THEN Run(<<sign, send>>, TRUE, Raise(env.broadcast.err))
                  ELSE Run(<<sign, send>>, TRUE, Return(None_))

\* convertMsgPrep = MsgExecuteContract(wallet.key.acc_address, contract, msg)
\* tx = wallet.create_and_sign_tx(msgs=[convertMsgPrep], fee=Fee(...))
\* res = client.tx.broadcast(tx)
\* No try and no return statement: an exception leaves the function, and
\* falling off its end returns None.
SignAndBroadcast(env, wallet, contract, msg) ==
    IF ~msg.ok THEN Run(<<>>, FALSE, Raise(msg.err))
    ELSE LET convertMsgPrep == MsgExecuteContract(wallet.key.acc_address, contract, msg.val)
             tx == SignedTx(wallet, <<convertMsgPrep>>, Fee)
             sign == [fn |-> "create_and_sign_tx", wallet |-> wallet, msgs |-> <<convertMsgPrep>>,
                      fee |-> Fee, kind |-> env.sign.kind, out |-> tx, err |-> env.sign.err]
             send == [fn |-> "broadcast", tx |-> tx, kind |-> env.broadcast.kind,
                      out |-> env.broadcast.ret, err |-> env.broadcast.err]
         IN  IF env.sign.kind = "raise" THEN Run(<<sign>>, TRUE, Raise(env.sign.err))
             ELSE IF env.broadcast.kind = "raise"
                  THEN Run(<<sign, send>>, TRUE, Raise(env.broadcast.err))
                  ELSE Run(<<sign, send>>, TRUE, Return(None_))

execute_vault_UpdateConfig(env, wallet, vault_addr, lp_token_code_id, fee_collector, generator_address) ==
    SignAndBroadcast(env, wallet, vault_addr,
        Message("update_config", << <<PyStr("lp_token_code_id"), lp_token_code_id>>,
                                    <<PyStr("fee_collector"), fee_collector>>,
                                    <<PyStr("generator_address"), generator_address>> >>))

execute_vault_UpdatePoolConfig(env, wallet, vault_addr, pool_type, is_disabled, new_fee_info) ==
    SignAndBroadcast(env, wallet, vault_addr,
        Message("update_pool_config", << <<PyStr("pool_type"), pool_type>>,
                                         <<PyStr("is_disabled"), is_disabled>>,
                                         <<PyStr("new_fee_info"), new_fee_info>> >>))

execute_vault_AddToRegistery(env, wallet, vault_addr, new_pool_config) ==
    SignAndBroadcast(env, wallet, vault_addr,
        Message("add_to_registery", << <<PyStr("new_pool_config"), new_pool_config>> >>))

execute_vault_CreatePoolInstance(env, wallet, vault_addr, pool_type, asset_infos, lp_token_name, lp_token_symbol, init_params) ==
    SignAndBroadcast(env, wallet, vault_addr,
        Message("create_pool_instance", << <<pool_type, pool_type>>,
                                           <<asset_infos, asset_infos>>,
                                           <<lp_token_name, lp_token_name>>,
                                           <<lp_token_symbol, lp_token_symbol>>,
                                           <<init_params, init_params>> >>))

execute_vault_JoinPool(env, wallet, vault_addr, pool_id, recipient, assets, lp_to_mint, init_params) ==
    SignAndBroadcast(env, wallet, vault_addr,
        Message("join_pool", << <<pool_id, pool_id>>,
                                <<recipient, recipient>>,
                                <<assets, assets>>,
                                <<lp_to_mint, lp_to_mint>>,
                                <<init_params, init_params>> >>))

execute_vault_Swap(env, wallet, vault_addr, swap_request, recipient) ==
    SignAndBroadcast(env, wallet, vault_addr,
        Message("swap", << <<swap_request, swap_request>>,
                           <<recipient, recipient>> >>))

execute_vault_ProposeNewOwner(env, wallet, vault_addr, owner, expires_in) ==
    SignAndBroadcast(env, wallet, vault_addr,
        Message("propose_new_owner", << <<owner, owner>>,
                                        <<expires_in, expires_in>> >>))

execute_vault_DropOwnershipProposal(env, wallet, vault_addr) ==
    SignAndBroadcast(env, wallet, vault_addr, Message("drop_ownership_proposal", <<>>))

execute_vault_ClaimOwnership(env, wallet, vault_addr) ==
    SignAndBroadcast(env, wallet, vault_addr, Message("claim_ownership", <<>>))

\* base64.b64encode(bytes(json.dumps(data), "ascii")).decode()
dict_to_b64(data) == Ok(StrOf(b64encode(json_dumps(data))))

\* The call dict_to_b64(x) in a function of a module whose module-level names
\* are `globals`: the name is looked up there, and NameError is raised when
\* it is not bound.
CallDictToB64(globals, data) ==
    IF "dict_to_b64" \in globals THEN dict_to_b64(data) ELSE Fail("NameError")

\* exit_msg = {"exit_pool": {"pool_id": ..., "recipient": ..., "assets": ..., "burn_amount": ...}}
ExitMsg(pool_id, recipient, assets, burn_amount) ==
    Message("exit_pool", << <<PyStr("pool_id"), pool_id>>,
                            <<PyStr("recipient"), recipient>>,
                            <<PyStr("assets"), assets>>,
                            <<PyStr("burn_amount"), burn_amount>> >>)

\* cw20_send = {"send": {"contract_addr": vault_addr, "amount": amount, "msg": dict_to_b64(exit_msg)}}
Cw20Send(globals, vault_addr, amount, exit_msg) ==
    LET payload == CallDictToB64(globals, exit_msg.val)
    IN  IF ~payload.ok THEN payload
        ELSE Message("send", << <<PyStr("contract_addr"), vault_addr>>,
                                <<PyStr("amount"), amount>>,
                                <<PyStr("msg"), payload.val>> >>)

\* The method of dexter_helpers_mixin.
execute_vault_exit_pool(env, wallet, vault_addr, lp_token_addr, amount, pool_id, recipient, assets, burn_amount) ==
    SignAndBroadcast(env, wallet, lp_token_addr,
        Cw20Send(MixinGlobals, vault_addr, amount, ExitMsg(pool_id, recipient, assets, burn_amount)))

\* A faulty exit_pool that addresses the envelope at the vault and names the
\* LP token inside the send message.
script_exit_pool_at_vault(env, wallet, vault_addr, lp_token_addr, amount, pool_id, recipient, assets, burn_amount) ==
    SignAndBroadcast(env, wallet, vault_addr,
        Cw20Send(ScriptGlobals, lp_token_addr, amount, ExitMsg(pool_id, recipient, assets, burn_amount)))

\* The function of simulation_script.py.
script_execute_vault_exit_pool(env, wallet, vault_addr, lp_token_addr, amount, pool_id, recipient, assets, burn_amount) ==
    SignAndBroadcast(env, wallet, lp_token_addr,
        Cw20Send(ScriptGlobals, vault_addr, amount, ExitMsg(pool_id, recipient, assets, burn_amount)))

(***************************************************************************)
(* The free functions of simulation_script.py.  Each takes client as its   *)
(* first parameter where the method takes self and reads self.client; env  *)
(* stands for it here as it does above.                                    *)
(***************************************************************************)
script_query_vault_config(env, contract_addr) ==
    TryQuery(env, contract_addr, Message("config", <<>>))

script_query_vault_query_registery(env, contract_addr, pool_type) ==
    TryQuery(env, contract_addr, Message("query_rigistery", << <<pool_type, pool_type>> >>))

script_query_vault_GetPoolById(env, contract_addr, pool_id) ==
    TryQuery(env, contract_addr, Message("get_pool_by_id", << <<pool_id, pool_id>> >>))

script_query_vault_GetPoolByAddress(env, contract_addr, pool_addr) ==
    TryQuery(env, contract_addr, Message("get_pool_by_address", << <<pool_addr, pool_addr>> >>))

script_query_pool_config(env, contract_addr) ==
    TryQuery(env, contract_addr, Message("config", <<>>))

script_query_pool_fee_params(env, contract_addr) ==
    TryQuery(env, contract_addr, Message("fee_params", <<>>))

script_query_pool_pool_id(env, contract_addr) ==
    TryQuery(env, contract_addr, Message("pool_id", <<>>))

script_query_pool_on_join_pool(env, contract_addr, assets_in, mint_amount, slippage_tolerance) ==
    TryQuery(env, contract_addr,
             Message("on_join_pool", << <<assets_in, assets_in>>,
                                        <<mint_amount, mint_amount>>,
                                        <<slippage_tolerance, slippage_tolerance>> >>))

script_query_pool_on_exit_pool(env, contract_addr, assets_out, burn_amount) ==
    TryQuery(env, contract_addr,
             Message("on_exit_pool", << <<assets_out, assets_out>>,
                                        <<burn_amount, burn_amount>> >>))

script_query_pool_on_swap(env, contract_addr, swap_type, offer_asset, ask_asset, amount, max_spread, belief_price) ==
    TryQuery(env, contract_addr,
             Message("on_swap", << <<swap_type, swap_type>>,
                                   <<offer_asset, offer_asset>>,
                                   <<ask_asset, ask_asset>>,
                                   <<amount, amount>>,
                                   <<max_spread, max_spread>>,
                                   <<belief_price, belief_price>> >>))

script_query_cumulative_price(env, contract_addr, offer_asset, ask_asset) ==
    TryQuery(env, contract_addr,
             Message("cumulative_price", << <<offer_asset, offer_asset>>,
                                            <<ask_asset, ask_asset>> >>))

script_query_cumulative_prices(env, contract_addr) ==
    TryQuery(env, contract_addr, Message("cumulative_prices", <<>>))

script_execute_vault_UpdateConfig(env, wallet, vault_addr, lp_token_code_id, fee_collector, generator_address) ==
    SignAndBroadcast(env, wallet, vault_addr,
        Message("update_config", << <<PyStr("lp_token_code_id"), lp_token_code_id>>,
                                    <<PyStr("fee_collector"), fee_collector>>,
                                    <<PyStr("generator_address"), generator_address>> >>))

script_execute_vault_UpdatePoolConfig(env, wallet, vault_addr, pool_type, is_disabled, new_fee_info) ==
    SignAndBroadcast(env, wallet, vault_addr,
        Message("update_pool_config", << <<PyStr("pool_type"), pool_type>>,
                                         <<PyStr("is_disabled"), is_disabled>>,
                                         <<PyStr("new_fee_info"), new_fee_info>> >>))

script_execute_vault_AddToRegistery(env, wallet, vault_addr, new_pool_config) ==
    SignAndBroadcast(env, wallet, vault_addr,
        Message("add_to_registery", << <<PyStr("new_pool_config"), new_pool_config>> >>))

script_execute_vault_CreatePoolInstance(env, wallet, vault_addr, pool_type, asset_infos, lp_token_name, lp_token_symbol, init_params) ==
    SignAndBroadcast(env, wallet, vault_addr,
        Message("create_pool_instance", << <<pool_type, pool_type>>,
                                           <<asset_infos, asset_infos>>,
                                           <<lp_token_name, lp_token_name>>,
                                           <<lp_token_symbol, lp_token_symbol>>,
                                           <<init_params, init_params>> >>))

script_execute_vault_JoinPool(env, wallet, vault_addr, pool_id, recipient, assets, lp_to_mint, init_params) ==
    SignAndBroadcast(env, wallet, vault_addr,
        Message("join_pool", << <<pool_id, pool_id>>,
                                <<recipient, recipient>>,
                                <<assets, assets>>,
                                <<lp_to_mint, lp_to_mint>>,
                                <<init_params, init_params>> >>))

script_execute_vault_Swap(env, wallet, vault_addr, swap_request, recipient) ==
    SignAndBroadcast(env, wallet, vault_addr,
        Message("swap", << <<swap_request, swap_request>>,
                           <<recipient, recipient>> >>))

script_execute_vault_ProposeNewOwner(env, wallet, vault_addr, owner, expires_in) ==
    SignAndBroadcast(env, wallet, vault_addr,
        Message("propose_new_owner", << <<owner, owner>>,
                                        <<expires_in, expires_in>> >>))

script_execute_vault_DropOwnershipProposal(env, wallet, vault_addr) ==
    SignAndBroadcast(env, wallet, vault_addr, Message("drop_ownership_proposal", <<>>))

script_execute_vault_ClaimOwnership(env, wallet, vault_addr) ==
    SignAndBroadcast(env, wallet, vault_addr, Message("claim_ownership", <<>>))

(***************************************************************************)
(* The configuration, config.py: the table of addresses and the table of   *)
(* pools, two dict literals that are read by subscription.                 *)
(***************************************************************************)
\* A faulty subscription that answers None for a key the dict does not have,
\* as d.get(k) does.
GetItemDefault(d, k) ==
    LET hits == {i \in 1..Len(d.v) : d.v[i][1] = k}
    IN  IF ~Hashable(k) THEN Raise("TypeError")
        ELSE IF hits = {} THEN Return(None_)
        ELSE Return(d.v[CHOOSE i \in hits : TRUE][2])

\* d[k]: the value stored under k; KeyError when d has no key k, TypeError
\* when k cannot be a key at all.
GetItem(d, k) ==
    LET hits == {i \in 1..Len(d.v) : d.v[i][1] = k}
    IN  IF ~Hashable(k) THEN Raise("TypeError")
        ELSE IF hits = {} THEN Raise("KeyError")
        ELSE Return(d.v[CHOOSE i \in hits : TRUE][2])

addresses ==
    PyDict(<< <<PyStr("test_tokens_addresses"), PyList(<< PyStr("persistence1u2zdjcczjrenwmf57fmrpensk4the84azdm05m3unm387rm8asdsh0yf27"),
                                                       PyStr("persistence1rtdulljz3dntzpu085c7mzre9dg4trgdddu4tqk7uuuvu6xrfu8s8wcs45"),
                                                       PyStr("persistence13hwj6afyxgue26f966hd5jkcvvjeruv7f9cdtd5d9mrtyrnn73ysyxvc8c"),
                                                       PyStr("persistence1gd54cnu80s8qdqcyhyvn06m87vlmch2uf4wvz4z08svawvc2rhysgvav55") >>)>>,
             <<PyStr("xyk_pool_addr"), PyStr("persistence1ut5qjunqrj6pnmg9vjlm8eufulquzdgqfw4xtg02kez0fdmzn9sqv804rp")>>,
             <<PyStr("xyk_lp_token_addr"), PyStr("persistence1xk0s8xgktn9x5vwcgtjdxqzadg88fgn33p8u9cnpdxwemvxscvasejtgv7")>>,
             <<PyStr("xyk_2_pool_addr"), PyStr("persistence1xvcthy3yrjaeg4y29c5zd2ckefgx99h2ge5ppxtwslnvyqwar7aq2lzgpz")>>,
             <<PyStr("xyk_2_lp_token_addr"), PyStr("persistence15ul08t80lm6kp6fs424e3c9gg6eys7wcvkyl6lud45ulfl0fxrnsjdek2u")>>,
             <<PyStr("stableswap_pool_addr"), PyStr("persistence1k528kg8h3q56j5yazshv39fafmhjzl4540u7w36g6q2amgyrpwpsvexl2d")>>,
             <<PyStr("stableswap_lp_token_addr"), PyStr("persistence1jdsm42szlkrsnht95w4xesk5yluud2rge9vr4vuv84sxd9w32uwsvv0lvh")>>,
             <<PyStr("stableswap_2_pool_addr"), PyStr("persistence1acrmqqyqq9gwcy2upegzncahqwnzjzy89pssyt0s3ghwsrrqy94srfsw6r")>>,
             <<PyStr("stableswap_2_lp_token_addr"), PyStr("persistence1kj45m8j2pqrqlw67tqde8lduzla7me38fps8tzzjl2emgp90f0gqjjf5sk")>>,
             <<PyStr("stable5swap_pool_addr"), PyStr("persistence1a7pjjyvng22a8msatp4zj6ut9tmsd9qvp26gaj7tnrjrqtx7yafqm7ezny")>>,
             <<PyStr("stable5swap_lp_token_addr"), PyStr("persistence17jllkv6clrkrwsuyxpya505rnhzwenkr4njw3um5eyqjuqm4twzqlt82eh")>>,
             <<PyStr("stable5swap_2_pool_addr"), PyStr("persistence1aexzn458dzh0lnuqdtzjtacq6tacnluz9ky643xdvw67en2yh97sjq6txg")>>,
             <<PyStr("stable5swap_2_lp_token_addr"), PyStr("persistence18yqlanxjqxx5lr8r43hsvjf0wyrlec3r8rpxgm2svrh52mzmlh4scappxa")>>,
             <<PyStr("weighted_pool_addr"), PyStr("persistence1j5h5zftg5su7ytz74f7rryl4f6x3p78lh907fw39eqhax75r94jsgj4n54")>>,
             <<PyStr("weighted_lp_token_addr"), PyStr("persistence1ejycngcuqyw2h8afhlzkq0cmjegpt96x583jh99anjzeut2rm4sqf0x4wk")>>,
             <<PyStr("vault_contract_address"), PyStr("persistence1jyhyqjxf3pc7vzwyqhwe53up5pj0e53zw3xu2589uqgkvqngswnqgrmstf")>> >>)

POOLS ==
    PyDict(<<
      <<PyStr("pool1"), PyDict(<<
          <<PyStr("id"), PyInt(15)>>,
          <<PyStr("type"), PyStr("xyk")>>,
          <<PyStr("pool_addr"), GetItem(addresses, PyStr("xyk_pool_addr")).ret>>,
          <<PyStr("lp_token_addr"), GetItem(addresses, PyStr("xyk_lp_token_addr")).ret>>,
          <<PyStr("assets"), PyList(<<
              PyDict(<< <<PyStr("token"), PyDict(<< <<PyStr("contract_addr"), PyStr("persistence1u2zdjcczjrenwmf57fmrpensk4the84azdm05m3unm387rm8asdsh0yf27")>> >>)>> >>),
              PyDict(<< <<PyStr("native_token"), PyDict(<< <<PyStr("denom"), PyStr("uxprt")>> >>)>> >>) >>)>> >>)>>,
      <<PyStr("pool2"), PyDict(<<
          <<PyStr("id"), PyInt(19)>>,
          <<PyStr("type"), PyStr("xyk")>>,
          <<PyStr("pool_addr"), GetItem(addresses, PyStr("xyk_2_pool_addr")).ret>>,
          <<PyStr("lp_token_addr"), GetItem(addresses, PyStr("xyk_2_lp_token_addr")).ret>>,
          <<PyStr("assets"), PyList(<<
              PyDict(<< <<PyStr("token"), PyDict(<< <<PyStr("contract_addr"), PyStr("persistence1u2zdjcczjrenwmf57fmrpensk4the84azdm05m3unm387rm8asdsh0yf27")>> >>)>> >>),
              PyDict(<< <<PyStr("token"), PyDict(<< <<PyStr("contract_addr"), PyStr("persistence1rtdulljz3dntzpu085c7mzre9dg4trgdddu4tqk7uuuvu6xrfu8s8wcs45")>> >>)>> >>) >>)>> >>)>>,
      <<PyStr("pool3"), PyDict(<<
          <<PyStr("id"), PyInt(20)>>,
          <<PyStr("type"), PyStr("stableswap")>>,
          <<PyStr("pool_addr"), GetItem(addresses, PyStr("stableswap_pool_addr")).ret>>,
          <<PyStr("lp_token_addr"), GetItem(addresses, PyStr("stableswap_lp_token_addr")).ret>>,
          <<PyStr("assets"), PyList(<<
              PyDict(<< <<PyStr("token"), PyDict(<< <<PyStr("contract_addr"), PyStr("persistence1u2zdjcczjrenwmf57fmrpensk4the84azdm05m3unm387rm8asdsh0yf27")>> >>)>> >>),
              PyDict(<< <<PyStr("token"), PyDict(<< <<PyStr("contract_addr"), PyStr("persistence1rtdulljz3dntzpu085c7mzre9dg4trgdddu4tqk7uuuvu6xrfu8s8wcs45")>> >>)>> >>) >>)>> >>)>>,
      <<PyStr("pool4"), PyDict(<<
          <<PyStr("id"), PyInt(4)>>,
          <<PyStr("type"), PyStr("stableswap")>>,
          <<PyStr("pool_addr"), GetItem(addresses, PyStr("stableswap_2_pool_addr")).ret>>,
          <<PyStr("lp_token_addr"), GetItem(addresses, PyStr("stableswap_2_lp_token_addr")).ret>>,
          <<PyStr("assets"), PyList(<<
              PyDict(<< <<PyStr("token"), PyDict(<< <<PyStr("contract_addr"), PyStr("persistence1vguuxez2h5ekltfj9gjd62fs5k4rl2zy5hfrncasykzw08rezpfst7tmng")>> >>)>> >>),
              PyDict(<< <<PyStr("native_token"), PyDict(<< <<PyStr("denom"), PyStr("uxprt")>> >>)>> >>) >>)>> >>)>>,
      <<PyStr("pool5"), PyDict(<<
          <<PyStr("id"), PyInt(5)>>,
          <<PyStr("type"), PyStr("stable5swap")>>,
          <<PyStr("pool_addr"), GetItem(addresses, PyStr("stable5swap_pool_addr")).ret>>,
          <<PyStr("lp_token_addr"), GetItem(addresses, PyStr("stable5swap_lp_token_addr")).ret>>,
          <<PyStr("assets"), PyList(<<
              PyDict(<< <<PyStr("token"), PyDict(<< <<PyStr("contract_addr"), PyStr("persistence1rl8su3hadqqq2v86lscpuklsh2mh84cxqvjdew4jt9yd07dzekyq85jyzr")>> >>)>> >>),
              PyDict(<< <<PyStr("token"), PyDict(<< <<PyStr("contract_addr"), PyStr("persistence1vguuxez2h5ekltfj9gjd62fs5k4rl2zy5hfrncasykzw08rezpfst7tmng")>> >>)>> >>) >>)>> >>)>>,
      <<PyStr("pool6"), PyDict(<<
          <<PyStr("id"), PyInt(6)>>,
          <<PyStr("type"), PyStr("stable5swap")>>,
          <<PyStr("pool_addr"), GetItem(addresses, PyStr("stable5swap_2_pool_addr")).ret>>,
          <<PyStr("lp_token_addr"), GetItem(addresses, PyStr("stable5swap_2_lp_token_addr")).ret>>,
          <<PyStr("assets"), PyList(<<
              PyDict(<< <<PyStr("token"), PyDict(<< <<PyStr("contract_addr"), PyStr("persistence1rl8su3hadqqq2v86lscpuklsh2mh84cxqvjdew4jt9yd07dzekyq85jyzr")>> >>)>> >>),
              PyDict(<< <<PyStr("token"), PyDict(<< <<PyStr("contract_addr"), PyStr("persistence1vguuxez2h5ekltfj9gjd62fs5k4rl2zy5hfrncasykzw08rezpfst7tmng")>> >>)>> >>),
              PyDict(<< <<PyStr("token"), PyDict(<< <<PyStr("contract_addr"), PyStr("persistence1vhjnzk9ly03dugffvzfcwgry4dgc8x0sv0nqqtfxj3ajn7rn5ghqtpaner")>> >>)>> >>),
              PyDict(<< <<PyStr("native_token"), PyDict(<< <<PyStr("denom"), PyStr("uxprt")>> >>)>> >>) >>)>> >>)>>,
      <<PyStr("pool7"), PyDict(<<
          <<PyStr("id"), PyInt(7)>>,
          <<PyStr("type"), PyStr("weighted")>>,
          <<PyStr("pool_addr"), GetItem(addresses, PyStr("weighted_pool_addr")).ret>>,
          <<PyStr("lp_token_addr"), GetItem(addresses, PyStr("weighted_lp_token_addr")).ret>>,
          <<PyStr("assets"), PyList(<<
              PyDict(<< <<PyStr("token"), PyDict(<< <<PyStr("contract_addr"), PyStr("persistence1rl8su3hadqqq2v86lscpuklsh2mh84cxqvjdew4jt9yd07dzekyq85jyzr")>> >>)>> >>),
              PyDict(<< <<PyStr("token"), PyDict(<< <<PyStr("contract_addr"), PyStr("persistence1vguuxez2h5ekltfj9gjd62fs5k4rl2zy5hfrncasykzw08rezpfst7tmng")>> >>)>> >>),
              PyDict(<< <<PyStr("token"), PyDict(<< <<PyStr("contract_addr"), PyStr("persistence1vhjnzk9ly03dugffvzfcwgry4dgc8x0sv0nqqtfxj3ajn7rn5ghqtpaner")>> >>)>> >>),
              PyDict(<< <<PyStr("native_token"), PyDict(<< <<PyStr("denom"), PyStr("uxprt")>> >>)>> >>) >>)>> >>)>> >>)

(***************************************************************************)
(* The callers' arguments and the collaborators' answers.                  *)
(***************************************************************************)
VaultAddr == PyStr("vault1")

PoolAddr == PyStr("pool1")

LpTokenAddr == PyStr("lptok1")

ContractAddrs == {VaultAddr, PoolAddr}

Wallets == {[key |-> [acc_address |-> PyStr("wallet1")]]}

\* {"native_token": {"denom": "uxprt"}}, as in config.py's POOLS
NativeInfo == PyDict(<< <<PyStr("native_token"), PyDict(<< <<PyStr("denom"), PyStr("uxprt")>> >>)>> >>)

\* [{"info": {...}, "amount": "10"}]
AssetList == PyList(<< PyDict(<< <<PyStr("info"), NativeInfo>>, <<PyStr("amount"), PyStr("10")>> >>) >>)

\* {"xyk": {}}
XykType == PyDict(<< <<PyStr("xyk"), PyDict(<<>>)>> >>)

PoolTypes == {PyStr("xyk"), XykType}

PoolIds == {PyInt(1), PyStr("1")}

OptAssets == {None_, AssetList}

OptAmount == {None_, PyStr("10")}

OptRecipient == {None_, PyStr("user1")}

AssetInfos == {PyStr("uxprt"), NativeInfo}

AskAssets == {PyStr("uxprt"), PyStr("tokenA")}

\* The keys a caller subscripts POOLS with: the seven names of the table, two
\* names it does not have, and a pool's id in place of its name.
PoolKeys ==
    {PyStr(n) : n \in {"pool1", "pool2", "pool3", "pool4", "pool5", "pool6", "pool7",
                       "pool8", "pool0"}}
    \cup {PyInt(15)}

QueryEnvs ==
    {[query |-> o] : o \in {Return(PyStr("r1")), Return(PyStr("r2")),
                            Raise("LCDResponseError"), Raise("KeyboardInterrupt")}}

ExecEnvs ==
    {[sign |-> Raise("ValueError"), broadcast |-> Return(None_)]}
    \cup {[sign |-> Return(None_), broadcast |-> b] :
             b \in {Return(PyStr("txhash1")), Raise("LCDResponseError"), Raise("ConnectionError")}}

QueryOps ==
    {"query_vault_config", "query_vault_query_registery", "query_vault_GetPoolById",
     "query_vault_GetPoolByAddress", "query_pool_config", "query_pool_fee_params",
     "query_pool_pool_id", "query_pool_on_join_pool", "query_pool_on_exit_pool",
     "query_pool_on_swap", "query_cumulative_price", "query_cumulative_prices"}

ExecuteOps ==
    {"execute_vault_UpdateConfig", "execute_vault_UpdatePoolConfig", "execute_vault_AddToRegistery",
     "execute_vault_CreatePoolInstance", "execute_vault_JoinPool", "execute_vault_Swap",
     "execute_vault_ProposeNewOwner", "execute_vault_DropOwnershipProposal",
     "execute_vault_ClaimOwnership", "execute_vault_exit_pool"}

NumQueries(calls) == Cardinality({i \in 1..Len(calls) : calls[i].fn = "contract_query"})

(***************************************************************************)
(* The state: which file's functions the caller uses; the most recent      *)
(* invocation (function, arguments, run); the run the same call has with   *)
(* the function of the same name in the other file; when the invocation    *)
(* repeats the one before it (same function, same arguments), how the      *)
(* earlier one ended; and the running counts of invocations, of query      *)
(* invocations that built their request, and of requests the client saw.   *)
(***************************************************************************)
\* The record kept of one invocation of helper function op with args, which
\* ran as run.
Invocation(op, args, run) == [op |-> op, args |-> args, run |-> run]

NoRepeat == [same |-> FALSE, kind |-> "return", ret |-> None_]

Init ==
    /\ impl \in {"mixin", "script"}
    /\ last = Invocation("none", <<>>, Run(<<>>, FALSE, Return(None_)))
    /\ twin = Run(<<>>, FALSE, Return(None_))
    /\ repeatOf = NoRepeat
    /\ nCalls = 0
    /\ nBuilt = 0
    /\ nRequests = 0

\* The bookkeeping after the invocation recorded in last'.
Counted ==
    /\ repeatOf' = IF last'.op = last.op /\ last'.args = last.args
                   THEN [same |-> TRUE, kind |-> last.run.kind, ret |-> last.run.ret]
                   ELSE NoRepeat
    /\ nCalls' = nCalls + 1
    /\ nBuilt' = nBuilt + (IF last'.op \in QueryOps /\ last'.run.built THEN 1 ELSE 0)
    /\ nRequests' = nRequests + NumQueries(last'.run.calls)
    /\ UNCHANGED impl

QueryVaultConfig ==
    /\ nCalls < MaxCalls
    /\ \E env \in QueryEnvs, a \in ContractAddrs :
           LET mixin == query_vault_config(env, a)
               script == script_query_vault_config(env, a)
           IN  /\ last' = Invocation("query_vault_config", <<a>>,
                             IF impl = "mixin" THEN mixin ELSE script)
               /\ twin' = IF impl = "mixin" THEN script ELSE mixin
    /\ Counted

QueryVaultQueryRegistery ==
    /\ nCalls < MaxCalls
    /\ \E env \in QueryEnvs, a \in {VaultAddr}, pool_type \in PoolTypes :
           LET mixin == query_vault_query_registery(env, a, pool_type)
               script == script_query_vault_query_registery(env, a, pool_type)
           IN  /\ last' = Invocation("query_vault_query_registery", <<a, pool_type>>,
                             IF impl = "mixin" THEN mixin ELSE script)
               /\ twin' = IF impl = "mixin" THEN script ELSE mixin
    /\ Counted

QueryVaultGetPoolById ==
    /\ nCalls < MaxCalls
    /\ \E env \in QueryEnvs, a \in {VaultAddr}, pool_id \in PoolIds :
           LET mixin == query_vault_GetPoolById(env, a, pool_id)
               script == script_query_vault_GetPoolById(env, a, pool_id)
           IN  /\ last' = Invocation("query_vault_GetPoolById", <<a, pool_id>>,
                             IF impl = "mixin" THEN mixin ELSE script)
               /\ twin' = IF impl = "mixin" THEN script ELSE mixin
    /\ Counted

QueryVaultGetPoolByAddress ==
    /\ nCalls < MaxCalls
    /\ \E env \in QueryEnvs, a \in {VaultAddr}, pool_addr \in {PoolAddr} :
           LET mixin == query_vault_GetPoolByAddress(env, a, pool_addr)
               script == script_query_vault_GetPoolByAddress(env, a, pool_addr)
           IN  /\ last' = Invocation("query_vault_GetPoolByAddress", <<a, pool_addr>>,
                             IF impl = "mixin" THEN mixin ELSE script)
               /\ twin' = IF impl = "mixin" THEN script ELSE mixin
    /\ Counted

QueryPoolConfig ==
    /\ nCalls < MaxCalls
    /\ \E env \in QueryEnvs, a \in ContractAddrs :
           LET mixin == query_pool_config(env, a)
               script == script_query_pool_config(env, a)
           IN  /\ last' = Invocation("query_pool_config", <<a>>,
                             IF impl = "mixin" THEN mixin ELSE script)
               /\ twin' = IF impl = "mixin" THEN script ELSE mixin
    /\ Counted

QueryPoolFeeParams ==
    /\ nCalls < MaxCalls
    /\ \E env \in QueryEnvs, a \in ContractAddrs :
           LET mixin == query_pool_fee_params(env, a)
               script == script_query_pool_fee_params(env, a)
           IN  /\ last' = Invocation("query_pool_fee_params", <<a>>,
                             IF impl = "mixin" THEN mixin ELSE script)
               /\ twin' = IF impl = "mixin" THEN script ELSE mixin
    /\ Counted

QueryPoolPoolId ==
    /\ nCalls < MaxCalls
    /\ \E env \in QueryEnvs, a \in ContractAddrs :
           LET mixin == query_pool_pool_id(env, a)
               script == script_query_pool_pool_id(env, a)
           IN  /\ last' = Invocation("query_pool_pool_id", <<a>>,
                             IF impl = "mixin" THEN mixin ELSE script)
               /\ twin' = IF impl = "mixin" THEN script ELSE mixin
    /\ Counted

QueryPoolOnJoinPool ==
    /\ nCalls < MaxCalls
    /\ \E env \in QueryEnvs, a \in {PoolAddr}, assets_in \in OptAssets, mint_amount \in OptAmount,
          slippage_tolerance \in {None_} :
           LET mixin == query_pool_on_join_pool(env, a, assets_in, mint_amount, slippage_tolerance)
               script == script_query_pool_on_join_pool(env, a, assets_in, mint_amount, slippage_tolerance)
           IN  /\ last' = Invocation("query_pool_on_join_pool", <<a, assets_in, mint_amount, slippage_tolerance>>,
                             IF impl = "mixin" THEN mixin ELSE script)
               /\ twin' = IF impl = "mixin" THEN script ELSE mixin
    /\ Counted

QueryPoolOnExitPool ==
    /\ nCalls < MaxCalls
    /\ \E env \in QueryEnvs, a \in {PoolAddr}, assets_out \in OptAssets, burn_amount \in OptAmount :
           LET mixin == query_pool_on_exit_pool(env, a, assets_out, burn_amount)
               script == script_query_pool_on_exit_pool(env, a, assets_out, burn_amount)
           IN  /\ last' = Invocation("query_pool_on_exit_pool", <<a, assets_out, burn_amount>>,
                             IF impl = "mixin" THEN mixin ELSE script)
               /\ twin' = IF impl = "mixin" THEN script ELSE mixin
    /\ Counted

QueryPoolOnSwap ==
    /\ nCalls < MaxCalls
    /\ \E env \in QueryEnvs, a \in {PoolAddr}, swap_type \in {PyStr("give_in")},
          offer_asset \in AssetInfos, ask_asset \in AskAssets, amount \in {PyStr("10")},
          max_spread \in {None_}, belief_price \in OptAmount :
           LET mixin == query_pool_on_swap(env, a, swap_type, offer_asset, ask_asset, amount, max_spread, belief_price)
               script == script_query_pool_on_swap(env, a, swap_type, offer_asset, ask_asset, amount, max_spread, belief_price)
           IN  /\ last' = Invocation("query_pool_on_swap", <<a, swap_type, offer_asset, ask_asset, amount, max_spread, belief_price>>,
                             IF impl = "mixin" THEN mixin ELSE script)
               /\ twin' = IF impl = "mixin" THEN script ELSE mixin
    /\ Counted

QueryCumulativePrice ==
    /\ nCalls < MaxCalls
    /\ \E env \in QueryEnvs, a \in {PoolAddr}, offer_asset \in AssetInfos, ask_asset \in AskAssets :
           LET mixin == query_cumulative_price(env, a, offer_asset, ask_asset)
               script == script_query_cumulative_price(env, a, offer_asset, ask_asset)
           IN  /\ last' = Invocation("query_cumulative_price", <<a, offer_asset, ask_asset>>,
                             IF impl = "mixin" THEN mixin ELSE script)
               /\ twin' = IF impl = "mixin" THEN script ELSE mixin
    /\ Counted

QueryCumulativePrices ==
    /\ nCalls < MaxCalls
    /\ \E env \in QueryEnvs, a \in ContractAddrs :
           LET mixin == query_cumulative_prices(env, a)
               script == script_query_cumulative_prices(env, a)
           IN  /\ last' = Invocation("query_cumulative_prices", <<a>>,
                             IF impl = "mixin" THEN mixin ELSE script)
               /\ twin' = IF impl = "mixin" THEN script ELSE mixin
    /\ Counted

ExecuteVaultUpdateConfig ==
    /\ nCalls < MaxCalls
    /\ \E env \in ExecEnvs, w \in Wallets, lp_token_code_id \in {None_, PyInt(7)},
          fee_collector \in OptRecipient, generator_address \in {None_} :
           LET mixin == execute_vault_UpdateConfig(env, w, VaultAddr, lp_token_code_id, fee_collector, generator_address)
               script == script_execute_vault_UpdateConfig(env, w, VaultAddr, lp_token_code_id, fee_collector, generator_address)
           IN  /\ last' = Invocation("execute_vault_UpdateConfig", <<w, VaultAddr, lp_token_code_id, fee_collector, generator_address>>,
                             IF impl = "mixin" THEN mixin ELSE script)
               /\ twin' = IF impl = "mixin" THEN script ELSE mixin
    /\ Counted

ExecuteVaultUpdatePoolConfig ==
    /\ nCalls < MaxCalls
    /\ \E env \in ExecEnvs, w \in Wallets, pool_type \in PoolTypes, is_disabled \in {None_},
          new_fee_info \in {None_, PyDict(<<>>)} :
           LET mixin == execute_vault_UpdatePoolConfig(env, w, VaultAddr, pool_type, is_disabled, new_fee_info)
               script == script_execute_vault_UpdatePoolConfig(env, w, VaultAddr, pool_type, is_disabled, new_fee_info)
           IN  /\ last' = Invocation("execute_vault_UpdatePoolConfig", <<w, VaultAddr, pool_type, is_disabled, new_fee_info>>,
                             IF impl = "mixin" THEN mixin ELSE script)
               /\ twin' = IF impl = "mixin" THEN script ELSE mixin
    /\ Counted

ExecuteVaultAddToRegistery ==
    /\ nCalls < MaxCalls
    /\ \E env \in ExecEnvs, w \in Wallets, new_pool_config \in {PyDict(<< <<PyStr("pool_type"), XykType>> >>)} :
           LET mixin == execute_vault_AddToRegistery(env, w, VaultAddr, new_pool_config)
               script == script_execute_vault_AddToRegistery(env, w, VaultAddr, new_pool_config)
           IN  /\ last' = Invocation("execute_vault_AddToRegistery", <<w, VaultAddr, new_pool_config>>,
                             IF impl = "mixin" THEN mixin ELSE script)
               /\ twin' = IF impl = "mixin" THEN script ELSE mixin
    /\ Counted

ExecuteVaultCreatePoolInstance ==
    /\ nCalls < MaxCalls
    /\ \E env \in ExecEnvs, w \in Wallets, pool_type \in PoolTypes,
          asset_infos \in {PyStr("uxprt"), PyList(<<NativeInfo>>)},
          lp_token_name \in {None_, PyStr("LP")}, lp_token_symbol \in {None_}, init_params \in {None_} :
           LET mixin == execute_vault_CreatePoolInstance(env, w, VaultAddr, pool_type, asset_infos, lp_token_name, lp_token_symbol, init_params)
               script == script_execute_vault_CreatePoolInstance(env, w, VaultAddr, pool_type, asset_infos, lp_token_name, lp_token_symbol, init_params)
           IN  /\ last' = Invocation("execute_vault_CreatePoolInstance", <<w, VaultAddr, pool_type, asset_infos, lp_token_name, lp_token_symbol, init_params>>,
                             IF impl = "mixin" THEN mixin ELSE script)
               /\ twin' = IF impl = "mixin" THEN script ELSE mixin
    /\ Counted

ExecuteVaultJoinPool ==
    /\ nCalls < MaxCalls
    /\ \E env \in ExecEnvs, w \in Wallets, pool_id \in {PyInt(1)}, recipient \in OptRecipient,
          assets \in OptAssets, lp_to_mint \in {None_}, init_params \in {None_} :
           LET mixin == execute_vault_JoinPool(env, w, VaultAddr, pool_id, recipient, assets, lp_to_mint, init_params)
               script == script_execute_vault_JoinPool(env, w, VaultAddr, pool_id, recipient, assets, lp_to_mint, init_params)
           IN  /\ last' = Invocation("execute_vault_JoinPool", <<w, VaultAddr, pool_id, recipient, assets, lp_to_mint, init_params>>,
                             IF impl = "mixin" THEN mixin ELSE script)
               /\ twin' = IF impl = "mixin" THEN script ELSE mixin
    /\ Counted

ExecuteVaultSwap ==
    /\ nCalls < MaxCalls
    /\ \E env \in ExecEnvs, w \in Wallets, swap_request \in {PyStr("swap_request"), PyDict(<<>>)},
          recipient \in OptRecipient :
           LET mixin == execute_vault_Swap(env, w, VaultAddr, swap_request, recipient)
               script == script_execute_vault_Swap(env, w, VaultAddr, swap_request, recipient)
           IN  /\ last' = Invocation("execute_vault_Swap", <<w, VaultAddr, swap_request, recipient>>,
                             IF impl = "mixin" THEN mixin ELSE script)
               /\ twin' = IF impl = "mixin" THEN script ELSE mixin
    /\ Counted

ExecuteVaultProposeNewOwner ==
    /\ nCalls < MaxCalls
    /\ \E env \in ExecEnvs, w \in Wallets, owner \in {PyStr("user1")}, expires_in \in {None_, PyInt(10)} :
           LET mixin == execute_vault_ProposeNewOwner(env, w, VaultAddr, owner, expires_in)
               script == script_execute_vault_ProposeNewOwner(env, w, VaultAddr, owner, expires_in)
           IN  /\ last' = Invocation("execute_vault_ProposeNewOwner", <<w, VaultAddr, owner, expires_in>>,
                             IF impl = "mixin" THEN mixin ELSE script)
               /\ twin' = IF impl = "mixin" THEN script ELSE mixin
    /\ Counted

ExecuteVaultDropOwnershipProposal ==
    /\ nCalls < MaxCalls
    /\ \E env \in ExecEnvs, w \in Wallets :
           LET mixin == execute_vault_DropOwnershipProposal(env, w, VaultAddr)
               script == script_execute_vault_DropOwnershipProposal(env, w, VaultAddr)
           IN  /\ last' = Invocation("execute_vault_DropOwnershipProposal", <<w, VaultAddr>>,
                             IF impl = "mixin" THEN mixin ELSE script)
               /\ twin' = IF impl = "mixin" THEN script ELSE mixin
    /\ Counted

ExecuteVaultClaimOwnership ==
    /\ nCalls < MaxCalls
    /\ \E env \in ExecEnvs, w \in Wallets :
           LET mixin == execute_vault_ClaimOwnership(env, w, VaultAddr)
               script == script_execute_vault_ClaimOwnership(env, w, VaultAddr)
           IN  /\ last' = Invocation("execute_vault_ClaimOwnership", <<w, VaultAddr>>,
                             IF impl = "mixin" THEN mixin ELSE script)
               /\ twin' = IF impl = "mixin" THEN script ELSE mixin
    /\ Counted

ExecuteVaultExitPool ==
    /\ nCalls < MaxCalls
    /\ \E env \in ExecEnvs, w \in Wallets, amount \in {PyStr("10")}, pool_id \in {PyInt(1)},
          recipient \in OptRecipient, assets \in OptAssets, burn_amount \in {None_, PyStr("5")} :
           LET mixin == execute_vault_exit_pool(env, w, VaultAddr, LpTokenAddr, amount, pool_id, recipient, assets, burn_amount)
               script == script_execute_vault_exit_pool(env, w, VaultAddr, LpTokenAddr, amount, pool_id, recipient, assets, burn_amount)
           IN  /\ last' = Invocation("execute_vault_exit_pool", <<w, VaultAddr, LpTokenAddr, amount, pool_id, recipient, assets, burn_amount>>,
                             IF impl = "mixin" THEN mixin ELSE script)
               /\ twin' = IF impl = "mixin" THEN script ELSE mixin
    /\ Counted

\* POOLS[key], as a caller of the configuration writes it.
LookupPool ==
    /\ nCalls < MaxCalls
    /\ \E key \in PoolKeys :
           /\ last' = Invocation("POOLS", <<key>>, Run(<<>>, FALSE, GetItem(POOLS, key)))
           /\ twin' = Run(<<>>, FALSE, GetItem(POOLS, key))
    /\ Counted

Next ==
    \/ QueryVaultConfig
    \/ QueryVaultQueryRegistery
    \/ QueryVaultGetPoolById
    \/ QueryVaultGetPoolByAddress
    \/ QueryPoolConfig
    \/ QueryPoolFeeParams
    \/ QueryPoolPoolId
    \/ QueryPoolOnJoinPool
    \/ QueryPoolOnExitPool
    \/ QueryPoolOnSwap
    \/ QueryCumulativePrice
    \/ QueryCumulativePrices
    \/ ExecuteVaultUpdateConfig
    \/ ExecuteVaultUpdatePoolConfig
    \/ ExecuteVaultAddToRegistery
    \/ ExecuteVaultCreatePoolInstance
    \/ ExecuteVaultJoinPool
    \/ ExecuteVaultSwap
    \/ ExecuteVaultProposeNewOwner
    \/ ExecuteVaultDropOwnershipProposal
    \/ ExecuteVaultClaimOwnership
    \/ ExecuteVaultExitPool
    \/ LookupPool

Spec == Init /\ [][Next]_vars

(***************************************************************************)
(* What the receiver of a message does with it: dict lookups, and          *)
(* base64.b64decode and json.loads, the inverses of the encoding above.    *)
(* The properties below are stated with them.                              *)
(***************************************************************************)
DictKeys(d) == {d.v[i][1] : i \in 1..Len(d.v)}

DictHas(d, k) == k \in DictKeys(d)

DictGet(d, k) == d.v[CHOOSE i \in 1..Len(d.v) : d.v[i][1] = k][2]

B64Index(c) ==
    IF c >= 65 /\ c <= 90 THEN c - 65
    ELSE IF c >= 97 /\ c <= 122 THEN c - 97 + 26
    ELSE IF c >= 48 /\ c <= 57 THEN c - 48 + 52
    ELSE IF c = 43 THEN 62 ELSE 63

RECURSIVE b64decode(_)
\* base64.b64decode(s) of a padded text.
b64decode(s) ==
    IF Len(s) < 4 THEN <<>>
    ELSE LET i3 == IF s[3] = 61 THEN 0 ELSE B64Index(s[3])
             i4 == IF s[4] = 61 THEN 0 ELSE B64Index(s[4])
             n == B64Index(s[1]) * 262144 + B64Index(s[2]) * 4096 + i3 * 64 + i4
             out == <<n \div 65536>>
                    \o (IF s[3] = 61 THEN <<>> ELSE <<(n \div 256) % 256>>)
                    \o (IF s[4] = 61 THEN <<>> ELSE <<n % 256>>)
         IN  out \o b64decode(SubSeq(s, 5, Len(s)))

RECURSIVE SkipWs(_, _)
SkipWs(s, i) == IF i <= Len(s) /\ s[i] \in {32, 9, 10, 13} THEN SkipWs(s, i + 1) ELSE i

Parsed(val, next) == [ok |-> TRUE, val |-> val, next |-> next]

NoParse == [ok |-> FALSE, val |-> None_, next |-> 0]

RECURSIVE ParseChars(_, _, _)
\* The characters of a string literal from position i to its closing quote.
ParseChars(s, i, acc) ==
    IF i > Len(s) THEN NoParse
    ELSE IF s[i] = 34 THEN Parsed(StrOf(acc), i + 1)
    ELSE IF s[i] = 92 THEN
         (IF i + 1 <= Len(s) /\ s[i + 1] \in {34, 92}
          THEN ParseChars(s, i + 2, Append(acc, s[i + 1])) ELSE NoParse)
    ELSE ParseChars(s, i + 1, Append(acc, s[i]))

RECURSIVE ParseDigits(_, _, _)
ParseDigits(s, i, acc) ==
    IF i <= Len(s) /\ s[i] >= 48 /\ s[i] <= 57
    THEN ParseDigits(s, i + 1, acc * 10 + (s[i] - 48))
    ELSE Parsed(PyInt(acc), i)

RECURSIVE ParseValue(_, _), ParseItems(_, _, _), ParseMembers(_, _, _)
\* json.loads at position i: the value and the position after it.
ParseValue(s, i0) ==
    LET i == SkipWs(s, i0)
    IN  IF i > Len(s) THEN NoParse
        ELSE IF s[i] = 110 THEN
             (IF i + 3 <= Len(s) /\ SubSeq(s, i, i + 3) = Ascii["null"]
              THEN Parsed(None_, i + 4) ELSE NoParse)
        ELSE IF s[i] = 34 THEN ParseChars(s, i + 1, <<>>)
        ELSE IF s[i] >= 48 /\ s[i] <= 57 THEN ParseDigits(s, i, 0)
        ELSE IF s[i] = 45 THEN
             (LET d == ParseDigits(s, i + 1, 0)
              IN  IF d.next > i + 1 THEN Parsed(PyInt(0 - d.val.v[1]), d.next) ELSE NoParse)
        ELSE IF s[i] = 91 THEN
             (LET j == SkipWs(s, i + 1)
              IN  IF j <= Len(s) /\ s[j] = 93 THEN Parsed(PyList(<<>>), j + 1)
                  ELSE ParseItems(s, j, <<>>))
        ELSE IF s[i] = 123 THEN
             (LET j == SkipWs(s, i + 1)
              IN  IF j <= Len(s) /\ s[j] = 125 THEN Parsed(PyDict(<<>>), j + 1)
                  ELSE ParseMembers(s, j, <<>>))
        ELSE NoParse

ParseItems(s, i, acc) ==
    LET x == ParseValue(s, i)
        j == SkipWs(s, x.next)
    IN  IF ~x.ok \/ j > Len(s) THEN NoParse
        ELSE IF s[j] = 44 THEN ParseItems(s, j + 1, Append(acc, x.val))
        ELSE IF s[j] = 93 THEN Parsed(PyList(Append(acc, x.val)), j + 1)
        ELSE NoParse

ParseMembers(s, i0, acc) ==
    LET i == SkipWs(s, i0)
        k == IF i <= Len(s) /\ s[i] = 34 THEN ParseChars(s, i + 1, <<>>) ELSE NoParse
        c == SkipWs(s, k.next)
        x == IF k.ok /\ c <= Len(s) /\ s[c] = 58 THEN ParseValue(s, c + 1) ELSE NoParse
        j == SkipWs(s, x.next)
    IN  IF ~x.ok \/ j > Len(s) THEN NoParse
        ELSE IF s[j] = 44 THEN ParseMembers(s, j + 1, DictSet(acc, k.val, x.val))
        ELSE IF s[j] = 125 THEN Parsed(PyDict(DictSet(acc, k.val, x.val)), j + 1)
        ELSE NoParse

\* json.loads(s): the whole text must be one value.
json_loads(s) ==
    LET x == ParseValue(s, 1)
    IN  IF x.ok /\ SkipWs(s, x.next) = Len(s) + 1 THEN Ok(x.val) ELSE Fail("JSONDecodeError")

(***************************************************************************)
(* The properties.                                                         *)
(***************************************************************************)
\* The calls of the most recent invocation on function fn of a collaborator.
CallsTo(fn) == {i \in 1..Len(last.run.calls) : last.run.calls[i].fn = fn}

QueryRaised == \E i \in CallsTo("contract_query") : last.run.calls[i].kind = "raise"

\* C1: when the client's contract_query raises, whatever the error, a query
\* operation returns None and raises nothing.
C1_QueryFailureReturnsNone ==
    (last.op \in QueryOps /\ QueryRaised) => (last.run.kind = "return" /\ last.run.ret = None_)

\* A query whose request reached the client, which raised KeyboardInterrupt.
C1_Witness ==
    /\ last.op = "query_pool_on_swap"
    /\ \E i \in CallsTo("contract_query") :
           last.run.calls[i].kind = "raise" /\ last.run.calls[i].err = "KeyboardInterrupt"
    /\ last.run.kind = "return"

\* C2: when the client's broadcast raises, an execute operation raises that
\* same error; it does not return.
C2_BroadcastFailurePropagates ==
    \A i \in CallsTo("broadcast") :
        (last.op \in ExecuteOps /\ last.run.calls[i].kind = "raise")
            => (last.run.kind = "raise" /\ last.run.err = last.run.calls[i].err)

\* An execute operation whose broadcast raised ConnectionError.
C2_Witness ==
    /\ last.op = "execute_vault_Swap"
    /\ \E i \in CallsTo("broadcast") :
           last.run.calls[i].kind = "raise" /\ last.run.calls[i].err = "ConnectionError"
    /\ last.run.kind = "raise"

\* The key the specification lists for each query operation.
QueryKey ==
    [query_vault_config |-> "config",
     query_vault_query_registery |-> "query_registry",
     query_vault_GetPoolById |-> "get_pool_by_id",
     query_vault_GetPoolByAddress |-> "get_pool_by_address",
     query_pool_config |-> "config",
     query_pool_fee_params |-> "fee_params",
     query_pool_pool_id |-> "pool_id",
     query_pool_on_join_pool |-> "on_join_pool",
     query_pool_on_exit_pool |-> "on_exit_pool",
     query_pool_on_swap |-> "on_swap",
     query_cumulative_price |-> "cumulative_price",
     query_cumulative_prices |-> "cumulative_prices"]

\* The declared parameters of each query operation after contract_addr.
QueryParams ==
    [query_vault_config |-> <<>>,
     query_vault_query_registery |-> <<"pool_type">>,
     query_vault_GetPoolById |-> <<"pool_id">>,
     query_vault_GetPoolByAddress |-> <<"pool_addr">>,
     query_pool_config |-> <<>>,
     query_pool_fee_params |-> <<>>,
     query_pool_pool_id |-> <<>>,
     query_pool_on_join_pool |-> <<"assets_in", "mint_amount", "slippage_tolerance">>,
     query_pool_on_exit_pool |-> <<"assets_out", "burn_amount">>,
     query_pool_on_swap |-> <<"swap_type", "offer_asset", "ask_asset", "amount", "max_spread", "belief_price">>,
     query_cumulative_price |-> <<"offer_asset", "ask_asset">>,
     query_cumulative_prices |-> <<>>]

\* Two dicts are equal when they hold the same keys with the same values.
SameItems(d, e) ==
    /\ d.t = "dict" /\ e.t = "dict"
    /\ {d.v[i] : i \in 1..Len(d.v)} = {e.v[i] : i \in 1..Len(e.v)}

\* The parameter object with one entry per name, holding the value at the
\* same position.
Mirror(names, values) == PyDict([i \in 1..Len(names) |-> <<PyStr(names[i]), values[i]>>])

\* msg is {key: params}, a dict with the one key.
IsMessage(msg, key, params) ==
    /\ msg.t = "dict" /\ Len(msg.v) = 1
    /\ msg.v[1][1] = PyStr(key)
    /\ SameItems(msg.v[1][2], params)

\* C3: a query operation sends exactly one request, {operation name: {each
\* declared parameter's name: the argument supplied, None when omitted}}.
C3_QueryRequestMirrorsArguments ==
    last.op \in QueryOps =>
        /\ Len(last.run.calls) = 1
        /\ last.run.calls[1].fn = "contract_query"
        /\ last.run.calls[1].addr = last.args[1]
        /\ IsMessage(last.run.calls[1].req, QueryKey[last.op],
                     Mirror(QueryParams[last.op], Tail(last.args)))

\* The key the specification lists for each execute operation; exit_pool is
\* a send that wraps exit_pool.
ExecuteKey ==
    [execute_vault_UpdateConfig |-> "update_config",
     execute_vault_UpdatePoolConfig |-> "update_pool_config",
     execute_vault_AddToRegistery |-> "add_to_registry",
     execute_vault_CreatePoolInstance |-> "create_pool_instance",
     execute_vault_JoinPool |-> "join_pool",
     execute_vault_Swap |-> "swap",
     execute_vault_ProposeNewOwner |-> "propose_new_owner",
     execute_vault_DropOwnershipProposal |-> "drop_ownership_proposal",
     execute_vault_ClaimOwnership |-> "claim_ownership",
     execute_vault_exit_pool |-> "send"]

\* The message of the i-th call, a create_and_sign_tx, of the most recent invocation.
SignedMsg(i) == last.run.calls[i].msgs[1].execute_msg

\* json.loads(base64.b64decode(msg)) of the send message's msg field.
DecodedPayload(send) ==
    LET inner == send.v[1][2]
    IN  IF inner.t = "dict" /\ DictHas(inner, PyStr("msg")) /\ DictGet(inner, PyStr("msg")).t = "str"
        THEN json_loads(b64decode(DictGet(inner, PyStr("msg")).v))
        ELSE Fail("KeyError")

\* C4: an execute operation produces exactly one envelope, and its message
\* has the single top-level key the specification lists for the operation.
C4_OneEnvelopeNamedAsListed ==
    last.op \in ExecuteOps =>
        /\ Cardinality(CallsTo("create_and_sign_tx")) = 1
        /\ \A i \in CallsTo("create_and_sign_tx") :
               /\ Len(last.run.calls[i].msgs) = 1
               /\ SignedMsg(i).t = "dict" /\ Len(SignedMsg(i).v) = 1
               /\ SignedMsg(i).v[1][1] = PyStr(ExecuteKey[last.op])
               /\ last.op = "execute_vault_exit_pool" =>
                      /\ DecodedPayload(SignedMsg(i)).ok
                      /\ DictKeys(DecodedPayload(SignedMsg(i)).val) = {PyStr("exit_pool")}

\* C5: every transaction handed to the wallet for signing carries exactly one
\* message and the fee 5,000,000 gas, 6,250,000 uxprt, whatever the operation
\* and its arguments.
C5_OneMessageFixedFee ==
    \A i \in CallsTo("create_and_sign_tx") :
        /\ Len(last.run.calls[i].msgs) = 1
        /\ last.run.calls[i].fee = [gas_limit |-> 5000000, amount |-> <<[denom |-> "uxprt", amount |-> 6250000]>>]

\* A propose_new_owner that was signed and broadcast.
C5_Witness ==
    /\ last.op = "execute_vault_ProposeNewOwner"
    /\ CallsTo("create_and_sign_tx") # {}
    /\ CallsTo("broadcast") # {}

\* C6: when the broadcast succeeds, an execute operation returns the
\* broadcast result as the client returned it.
C6_ReturnsBroadcastResult ==
    \A i \in CallsTo("broadcast") :
        (last.op \in ExecuteOps /\ last.run.calls[i].kind = "return")
            => (last.run.kind = "return" /\ last.run.ret = last.run.calls[i].out)

\* The arguments of exit_pool: wallet, vault_addr, lp_token_addr, amount,
\* pool_id, recipient, assets, burn_amount.
ExitParams == <<"pool_id", "recipient", "assets", "burn_amount">>

\* C7: exit_pool reaches the wallet with a send message whose msg field,
\* base64-decoded and JSON-parsed, is {"exit_pool": {pool_id, recipient,
\* assets, burn_amount}} with the caller's values.
C7_ExitPayloadRoundTrip ==
    last.op = "execute_vault_exit_pool" =>
        /\ CallsTo("create_and_sign_tx") # {}
        /\ \A i \in CallsTo("create_and_sign_tx") :
               /\ SignedMsg(i).t = "dict" /\ Len(SignedMsg(i).v) = 1
               /\ SignedMsg(i).v[1][1] = PyStr("send")
               /\ DecodedPayload(SignedMsg(i)).ok
               /\ IsMessage(DecodedPayload(SignedMsg(i)).val, "exit_pool",
                            Mirror(ExitParams, SubSeq(last.args, 5, 8)))

\* C8: the envelope exit_pool signs and broadcasts is addressed at the
\* caller's LP-token address, not at the vault address, which is the
\* contract_addr of the send message.
C8_ExitEnvelopeAtLpToken ==
    last.op = "execute_vault_exit_pool" =>
        /\ \A i \in CallsTo("create_and_sign_tx") :
               /\ last.run.calls[i].msgs[1].contract = last.args[3]
               /\ last.run.calls[i].msgs[1].contract # last.args[2]
               /\ DictGet(SignedMsg(i).v[1][2], PyStr("contract_addr")) = last.args[2]
        /\ \A i \in CallsTo("broadcast") :
               /\ Len(last.run.calls[i].tx.msgs) = 1
               /\ last.run.calls[i].tx.msgs[1].contract = last.args[3]

\* An exit_pool whose envelope was signed and broadcast.
C8_Witness ==
    /\ last.op = "execute_vault_exit_pool"
    /\ CallsTo("create_and_sign_tx") # {}
    /\ \E i \in CallsTo("broadcast") : last.run.calls[i].kind = "return"

\* The declared message parameters of the execute operations that have
\* optional ones, and the position of the first in the argument tuple.
ExecuteParams ==
    [execute_vault_UpdateConfig |-> <<"lp_token_code_id", "fee_collector", "generator_address">>,
     execute_vault_UpdatePoolConfig |-> <<"pool_type", "is_disabled", "new_fee_info">>,
     execute_vault_CreatePoolInstance |->
         <<"pool_type", "asset_infos", "lp_token_name", "lp_token_symbol", "init_params">>,
     execute_vault_JoinPool |-> <<"pool_id", "recipient", "assets", "lp_to_mint", "init_params">>,
     execute_vault_Swap |-> <<"swap_request", "recipient">>,
     execute_vault_ProposeNewOwner |-> <<"owner", "expires_in">>,
     execute_vault_exit_pool |-> ExitParams]

FirstParam == [op \in DOMAIN ExecuteParams |-> IF op = "execute_vault_exit_pool" THEN 5 ELSE 3]

\* The parameter object an execute operation built: the one under the
\* message's key, for exit_pool the one under the decoded payload's key.
BuiltParams(i) ==
    IF last.op = "execute_vault_exit_pool"
    THEN (IF DecodedPayload(SignedMsg(i)).ok THEN DecodedPayload(SignedMsg(i)).val.v[1][2] ELSE None_)
    ELSE SignedMsg(i).v[1][2]

\* C9: in the message an execute operation built, every parameter the caller
\* omitted (None) is present under its own name with the value None, and the
\* message has one entry per declared parameter.
C9_OmittedOptionalsAreExplicitNulls ==
    \A i \in CallsTo("create_and_sign_tx") :
        last.op \in DOMAIN ExecuteParams =>
            LET names == ExecuteParams[last.op]
                built == BuiltParams(i)
            IN  /\ built.t = "dict"
                /\ Len(built.v) = Len(names)
                /\ \A j \in 1..Len(names) :
                       last.args[FirstParam[last.op] + j - 1] = None_ =>
                           /\ DictHas(built, PyStr(names[j]))
                           /\ DictGet(built, PyStr(names[j])) = None_

\* Python builds the request of a query exactly when every argument used as
\* a key is hashable.
ArgsHashable == \A j \in 2..Len(last.args) : Hashable(last.args[j])

\* C10: the client has seen as many requests as there were query calls that
\* reached it, and a query that repeats the previous one (same operation, same
\* address, same parameters) makes a request of its own and returns what the
\* client answers to that request.
C10_NoMemoization ==
    /\ nRequests = nBuilt
    /\ (last.op \in QueryOps /\ repeatOf.same /\ ArgsHashable) =>
           /\ Cardinality(CallsTo("contract_query")) = 1
           /\ \A i \in CallsTo("contract_query") :
                  /\ last.run.calls[i].kind = "return" => last.run.ret = last.run.calls[i].out
                  /\ last.run.calls[i].kind = "raise" => last.run.ret = None_

\* The same query issued twice: the first answered r1, the second r2.
C10_Witness ==
    /\ last.op = "query_pool_config"
    /\ repeatOf.same /\ repeatOf.ret = PyStr("r1")
    /\ last.run.ret = PyStr("r2")
    /\ nRequests = 2

\* The calls of the most recent invocation on the chain client.
ClientCalls == CallsTo("contract_query") \cup CallsTo("broadcast")

\* C11: no retry.  Within one invocation the chain client is called at most
\* once and the wallet signs at most once; an invocation that got as far as
\* the client (request built; message built and signed) called it exactly
\* once; and a call that raised is the last call of the invocation, so that
\* nothing follows a raising contract_query or broadcast.
C11_NoRetry ==
    /\ Cardinality(ClientCalls) <= 1
    /\ Cardinality(CallsTo("create_and_sign_tx")) <= 1
    /\ (last.op \in QueryOps /\ last.run.built) => Cardinality(CallsTo("contract_query")) = 1
    /\ \A i \in CallsTo("create_and_sign_tx") :
           last.run.calls[i].kind = "return" => Cardinality(CallsTo("broadcast")) = 1
    /\ \A i \in 1..Len(last.run.calls) :
           last.run.calls[i].kind = "raise" => i = Len(last.run.calls)

\* A join_pool whose broadcast raised: signed once, broadcast once.
C11_Witness ==
    /\ last.op = "execute_vault_JoinPool"
    /\ \E i \in CallsTo("broadcast") : last.run.calls[i].kind = "raise"
    /\ Len(last.run.calls) = 2
    /\ last.run.kind = "raise"

\* The names the specification gives the pools, and the kinds of pool.
KnownPoolNames == {PyStr(n) : n \in {"pool1", "pool2", "pool3", "pool4", "pool5", "pool6", "pool7"}}

PoolKinds == {PyStr(k) : k \in {"xyk", "stableswap", "stable5swap", "weighted"}}

\* An asset reference is a dict with one key, token or native_token.
IsAssetReference(a) ==
    /\ a.t = "dict"
    /\ Len(a.v) = 1
    /\ Cardinality(DictKeys(a) \cap {PyStr("token"), PyStr("native_token")}) = 1

\* A pool descriptor has a kind among the four and a non-empty list of
\* asset references.
IsPoolDescriptor(d) ==
    /\ d.t = "dict"
    /\ DictHas(d, PyStr("type")) /\ DictGet(d, PyStr("type")) \in PoolKinds
    /\ DictHas(d, PyStr("assets"))
    /\ DictGet(d, PyStr("assets")).t = "list"
    /\ Len(DictGet(d, PyStr("assets")).v) >= 1
    /\ \A i \in 1..Len(DictGet(d, PyStr("assets")).v) :
           IsAssetReference(DictGet(d, PyStr("assets")).v[i])

\* C12: subscripting POOLS with one of the names pool1..pool7 returns a
\* descriptor with a kind among xyk, stableswap, stable5swap, weighted and a
\* non-empty asset list whose members are each a token or a native_token,
\* never both; with any other key it raises KeyError and returns nothing.
C12_PoolsLookup ==
    last.op = "POOLS" =>
        IF last.args[1] \in KnownPoolNames
        THEN last.run.kind = "return" /\ IsPoolDescriptor(last.run.ret)
        ELSE last.run.kind = "raise" /\ last.run.err = "KeyError"

\* POOLS["pool6"] returned its descriptor: stable5swap, three tokens and
\* the native token.
C12_Witness ==
    /\ last.op = "POOLS"
    /\ last.args = <<PyStr("pool6")>>
    /\ last.run.kind = "return"
    /\ DictGet(last.run.ret, PyStr("type")) = PyStr("stable5swap")
    /\ Len(DictGet(last.run.ret, PyStr("assets")).v) = 4
    /\ DictKeys(DictGet(last.run.ret, PyStr("assets")).v[4]) = {PyStr("native_token")}

\* The nine execute operations that address the vault directly.
VaultExecuteOps == ExecuteOps \ {"execute_vault_exit_pool"}

\* C13: an execute operation other than exit_pool builds, signs and
\* broadcasts in that order: its first call on a collaborator is the one
\* create_and_sign_tx, on an envelope whose sender is the wallet's account
\* address and whose target is the vault address the caller passed; when the
\* signing returned, the one broadcast follows it, with the transaction the
\* signing returned.
C13_BuildSignBroadcastInOrder ==
    last.op \in VaultExecuteOps =>
        /\ Cardinality(CallsTo("create_and_sign_tx")) = 1
        /\ Len(last.run.calls) >= 1
        /\ last.run.calls[1].fn = "create_and_sign_tx"
        /\ last.run.calls[1].msgs[1].sender = last.args[1].key.acc_address
        /\ last.run.calls[1].msgs[1].contract = last.args[2]
        /\ last.run.calls[1].kind = "return" =>
               /\ Len(last.run.calls) = 2
               /\ last.run.calls[2].fn = "broadcast"
               /\ last.run.calls[2].tx = last.run.calls[1].out

\* C14: when building the request of a query operation raises, the operation
\* returns None, raises nothing, and the client has been sent no request.
C14_RequestBuildFailureIsSoft ==
    (last.op \in QueryOps /\ ~last.run.built) =>
        /\ last.run.kind = "return"
        /\ last.run.ret = None_
        /\ CallsTo("contract_query") = {}
        /\ last.run.calls = <<>>

\* query_pool_on_join_pool called with a list of assets: the dict display
\* {assets_in: assets_in, ...} raised TypeError inside the try.
C14_Witness ==
    /\ last.op = "query_pool_on_join_pool"
    /\ last.args[2] = AssetList
    /\ ~last.run.built
    /\ last.run.kind = "return"
    /\ last.run.calls = <<>>

\* The signing of the most recent invocation raised.
SignRaised == \E i \in CallsTo("create_and_sign_tx") : last.run.calls[i].kind = "raise"

\* C15: when building the message of an execute operation raised (the
\* payload encoding of exit_pool included) or its signing raised, the
\* operation raises, with the signing's error when it was the signing, and
\* the client's broadcast has not been called.
C15_NoBroadcastAfterFailure ==
    (last.op \in ExecuteOps /\ (~last.run.built \/ SignRaised)) =>
        /\ last.run.kind = "raise"
        /\ CallsTo("broadcast") = {}
        /\ ~last.run.built => last.run.calls = <<>>
        /\ \A i \in CallsTo("create_and_sign_tx") :
               last.run.calls[i].kind = "raise" => last.run.err = last.run.calls[i].err

\* The mixin's exit_pool: the call of dict_to_b64 raised NameError while the
\* message was being built, and nothing was signed or broadcast.
C15_Witness ==
    /\ last.op = "execute_vault_exit_pool"
    /\ impl = "mixin"
    /\ ~last.run.built
    /\ last.run.kind = "raise" /\ last.run.err = "NameError"
    /\ last.run.calls = <<>>

\* C16: the method of the mixin and the free function of the same name in
\* simulation_script.py do the same with the same arguments and the same
\* answers of client and wallet: the same calls on them, in the same order
\* and with the same payloads, and the same return value or the same error;
\* execute_vault_exit_pool included.
C16_MixinEqualsScript ==
    last.op \in QueryOps \cup ExecuteOps =>
        /\ twin.calls = last.run.calls
        /\ twin.kind = last.run.kind
        /\ twin.ret = last.run.ret
        /\ twin.err = last.run.err

====
